---------------------------- MODULE Spec2Model ----------------------------
(***************************************************************************)
(* sequelize-db-meta: an expiring key-value store kept in one relational   *)
(* table {key, value, expires}.                                            *)
(*                                                                         *)
(* Text (keys, stored values, error messages) is a sequence of one-        *)
(* character strings.  A JavaScript value is a tagged record; an object's  *)
(* fields are a function from field names to values (deep equality does    *)
(* not see the insertion order, so the model does not keep it).  A date   *)
(* counts half seconds: the clock and the stored dates have a finer grain  *)
(* than the second, and so has the time (a number) a caller gives expire.  *)
(* A nullable column holds the set {} for SQL NULL and {d} for the date d. *)
(***************************************************************************)
EXTENDS Integers, Sequences, FiniteSets, TLC

(***************************************************************************)
(* Bounds of the model.                                                    *)
(***************************************************************************)
\* the clock's last instant, and the longest time given to expire, in half seconds
MaxTime == 2
MaxSeconds == 2
\* the tasks that monitor makes in one run
MaxTasks == 3

(***************************************************************************)
(* JavaScript values.                                                      *)
(***************************************************************************)
Undefined == [t |-> "undefined"]
Null == [t |-> "null"]
Bool(b) == [t |-> "boolean", b |-> b]
Num(n) == [t |-> "number", n |-> n]
Str(s) == [t |-> "string", s |-> s]
Obj(f) == [t |-> "object", f |-> f]
Arr(e) == [t |-> "array", e |-> e]

NoFields == << >>

\* xcane type.isOptional / isString / isNumber / isBoolean, as the store uses them
isOptional(v) == v.t \in {"undefined", "null"}
isString(v) == v.t = "string"
isNumber(v) == v.t = "number"
isBoolean(v) == v.t = "boolean"

(***************************************************************************)
(* Property names in the order JSON.stringify walks them: integer-like     *)
(* names ascending, then the others.                                       *)
(***************************************************************************)
PropertyOrder ==
  << <<"0">>, <<"1">>, <<"a">>, <<"b">>, <<"c">>, <<"v", "a", "l", "u", "e">> >>

OwnKeys(f) == SelectSeq(PropertyOrder, LAMBDA name : name \in DOMAIN f)

IsIndex(name) == name \in { <<"0">>, <<"1">> }
IndexOf(name) == IF name = <<"0">> THEN 0 ELSE 1
IndexName(i) == IF i = 0 THEN <<"0">> ELSE <<"1">>

(***************************************************************************)
(* JSON.stringify.                                                         *)
(***************************************************************************)
DigitChars == <<"0", "1", "2", "3", "4", "5", "6", "7", "8", "9">>

RECURSIVE NumberText(_)
NumberText(n) ==
  IF n < 10 THEN <<DigitChars[n + 1]>>
  ELSE NumberText(n \div 10) \o <<DigitChars[(n % 10) + 1]>>

RECURSIVE EscapeChars(_)
EscapeChars(s) ==
  IF s = << >> THEN << >>
  ELSE (IF Head(s) \in {"\"", "\\"} THEN <<"\\", Head(s)>> ELSE <<Head(s)>>)
       \o EscapeChars(Tail(s))

Quote(s) == <<"\"">> \o EscapeChars(s) \o <<"\"">>

RECURSIVE stringify(_), stringifyElements(_), stringifyMembers(_, _, _)
stringify(v) ==
  CASE v.t = "null" -> <<"n", "u", "l", "l">>
    [] v.t = "boolean" -> IF v.b THEN <<"t", "r", "u", "e">>
                                 ELSE <<"f", "a", "l", "s", "e">>
    [] v.t = "number" -> NumberText(v.n)
    [] v.t = "string" -> Quote(v.s)
    [] v.t = "array" -> <<"[">> \o stringifyElements(v.e) \o <<"]">>
    [] v.t = "object" -> <<"{">> \o stringifyMembers(v.f, OwnKeys(v.f), TRUE) \o <<"}">>

\* an undefined element of an array is written as null
stringifyElements(e) ==
  IF e = << >> THEN << >>
  ELSE (IF Head(e).t = "undefined" THEN stringify(Null) ELSE stringify(Head(e)))
       \o (IF Tail(e) = << >> THEN << >> ELSE <<",">> \o stringifyElements(Tail(e)))

\* a member whose value is undefined is left out
stringifyMembers(f, names, first) ==
  IF names = << >> THEN << >>
  ELSE IF f[Head(names)].t = "undefined"
       THEN stringifyMembers(f, Tail(names), first)
       ELSE (IF first THEN << >> ELSE <<",">>)
            \o Quote(Head(names)) \o <<":">> \o stringify(f[Head(names)])
            \o stringifyMembers(f, Tail(names), FALSE)

(***************************************************************************)
(* JSON.parse: a recursive-descent parser.  Each Parse operator reads at   *)
(* position i of the text s and answers [v |-> what it read, i |-> the     *)
(* position after it].                                                     *)
(***************************************************************************)
DigitValue(c) == CHOOSE d \in 0..9 : DigitChars[d + 1] = c
IsDigit(c) == \E d \in 1..10 : DigitChars[d] = c

RECURSIVE ParseNumber(_, _, _)
ParseNumber(s, i, acc) ==
  IF i <= Len(s) /\ IsDigit(s[i])
  THEN ParseNumber(s, i + 1, acc * 10 + DigitValue(s[i]))
  ELSE [v |-> Num(acc), i |-> i]

\* s[i] is the first character after the opening quote
RECURSIVE ParseChars(_, _, _)
ParseChars(s, i, acc) ==
  IF s[i] = "\"" THEN [v |-> acc, i |-> i + 1]
  ELSE IF s[i] = "\\" THEN ParseChars(s, i + 2, Append(acc, s[i + 1]))
  ELSE ParseChars(s, i + 1, Append(acc, s[i]))

RECURSIVE ParseValue(_, _), ParseElements(_, _, _), ParseMembers(_, _, _)
ParseValue(s, i) ==
  CASE s[i] = "n" -> [v |-> Null, i |-> i + 4]
    [] s[i] = "t" -> [v |-> Bool(TRUE), i |-> i + 4]
    [] s[i] = "f" -> [v |-> Bool(FALSE), i |-> i + 5]
    [] s[i] = "\"" -> LET r == ParseChars(s, i + 1, << >>)
                      IN [v |-> Str(r.v), i |-> r.i]
    [] s[i] = "[" -> IF s[i + 1] = "]" THEN [v |-> Arr(<< >>), i |-> i + 2]
                     ELSE ParseElements(s, i + 1, << >>)
    [] s[i] = "{" -> IF s[i + 1] = "}" THEN [v |-> Obj(NoFields), i |-> i + 2]
                     ELSE ParseMembers(s, i + 1, NoFields)
    [] OTHER -> ParseNumber(s, i, 0)

ParseElements(s, i, acc) ==
  LET r == ParseValue(s, i)
  IN IF s[r.i] = "," THEN ParseElements(s, r.i + 1, Append(acc, r.v))
     ELSE [v |-> Arr(Append(acc, r.v)), i |-> r.i + 1]

\* s[i] is the opening quote of a member's name; s[name.i] is the colon
ParseMembers(s, i, acc) ==
  LET name == ParseChars(s, i + 1, << >>)
      r == ParseValue(s, name.i + 1)
      f == [n \in DOMAIN acc \cup {name.v} |-> IF n = name.v THEN r.v ELSE acc[n]]
  IN IF s[r.i] = "," THEN ParseMembers(s, r.i + 1, f)
     ELSE [v |-> Obj(f), i |-> r.i + 1]

parse(s) == ParseValue(s, 1).v

\* o.name of a parsed value: undefined when it has no such property
GetProperty(o, name) ==
  IF o.t = "object" /\ name \in DOMAIN o.f THEN o.f[name] ELSE Undefined

ValueName == <<"v", "a", "l", "u", "e">>

(***************************************************************************)
(* The value column's setter and getter.                                   *)
(***************************************************************************)
\* a bug: the setter names the envelope's field otherwise than the getter
encodeValueMisnamed(value) == stringify(Obj([n \in { <<"a">> } |-> value]))

encodeValue(value) == stringify(Obj([n \in {ValueName} |-> value]))

\* a bug: an object without the property reads as null
parseValueOrNull(text) ==
  LET o == parse(text)
  IN IF o.t = "object" /\ ValueName \in DOMAIN o.f THEN o.f[ValueName] ELSE Null

parseValue(text) == GetProperty(parse(text), ValueName)

(***************************************************************************)
(* Object.assign(target, source) on property maps: source's properties     *)
(* overwrite target's, the others stay.                                    *)
(***************************************************************************)
ObjectAssign(target, source) ==
  [n \in DOMAIN target \cup DOMAIN source |->
     IF n \in DOMAIN source THEN source[n] ELSE target[n]]

\* the enumerable own properties of a value that Object.assign copies from it
OwnProperties(v) ==
  CASE v.t = "object" -> v.f
    [] v.t = "array" -> [n \in {IndexName(i - 1) : i \in DOMAIN v.e} |-> v.e[IndexOf(n) + 1]]
    [] OTHER -> NoFields

(***************************************************************************)
(* Object.assign(current.value, value) followed by the value setter: the   *)
(* target keeps its kind.  On an array target an index property replaces   *)
(* (or appends) an element; JSON.stringify of an array writes its elements *)
(* only, so any other property set on it is not stored.                    *)
(***************************************************************************)
RECURSIVE SetElements(_, _, _)
SetElements(e, src, i) ==
  IF i > 1 THEN e
  ELSE LET n == IndexName(i)
           e1 == IF n \notin DOMAIN src THEN e
                 ELSE IF i + 1 <= Len(e) THEN [e EXCEPT ![i + 1] = src[n]]
                 ELSE IF i = Len(e) THEN Append(e, src[n])
                 ELSE e \o <<Undefined, src[n]>>
       IN SetElements(e1, src, i + 1)

\* a bug: Object.assign(value, current.value), the existing fields win
assignValueExistingWins(current, value) ==
  Obj(ObjectAssign(OwnProperties(value), OwnProperties(current)))

assignValue(current, value) ==
  IF current.t = "array"
  THEN Arr(SetElements(current.e, OwnProperties(value), 0))
  ELSE Obj(ObjectAssign(current.f, OwnProperties(value)))

(***************************************************************************)
(* The abstract persistent table: a set of rows [key, value, expires].     *)
(* A where clause maps column names to conditions, all of which a row      *)
(* must meet.                                                              *)
(***************************************************************************)
NULL == {}
Date(d) == {d}

Eq(arg) == [op |-> "$eq", arg |-> arg]
NullOrGt(date) == [op |-> "$or", eq |-> NULL, gt |-> date]
Lte(date) == [op |-> "$lte", arg |-> date]
Like(pattern) == [op |-> "$like", arg |-> pattern]
Ne(arg) == [op |-> "$ne", arg |-> arg]

\* SQL LIKE: _ stands for any one character, % for any run of characters,
\* every other character for itself
RECURSIVE LikeMatch(_, _)
LikeMatch(text, pattern) ==
  IF pattern = << >> THEN text = << >>
  ELSE IF Head(pattern) = "%"
       THEN LikeMatch(text, Tail(pattern))
            \/ (text # << >> /\ LikeMatch(Tail(text), pattern))
       ELSE /\ text # << >>
            /\ (Head(pattern) = "_" \/ Head(pattern) = Head(text))
            /\ LikeMatch(Tail(text), Tail(pattern))

\* a bug: the row that expires at this very instant still meets $gt
HoldsInclusive(cell, cond) ==
  CASE cond.op = "$eq" -> cell = cond.arg
    [] cond.op = "$or" -> cell = cond.eq \/ \E e \in cell : e >= cond.gt
    [] cond.op = "$lte" -> \E e \in cell : e <= cond.arg
    [] cond.op = "$like" -> LikeMatch(cell, cond.arg)
    [] cond.op = "$ne" -> cell # NULL /\ (cond.arg = NULL \/ cell # cond.arg)

\* SQL comparison: a NULL cell meets IS NULL only, never > or <=
Holds(cell, cond) ==
  CASE cond.op = "$eq" -> cell = cond.arg
    [] cond.op = "$or" -> cell = cond.eq \/ \E e \in cell : e > cond.gt
    [] cond.op = "$lte" -> \E e \in cell : e <= cond.arg
    [] cond.op = "$like" -> LikeMatch(cell, cond.arg)
    [] cond.op = "$ne" -> cell # NULL /\ (cond.arg = NULL \/ cell # cond.arg)

Matches(row, where) == \A col \in DOMAIN where : Holds(row[col], where[col])

findOne(tbl, where) ==
  IF \E r \in tbl : Matches(r, where)
  THEN {CHOOSE r \in tbl : Matches(r, where)}
  ELSE {}

destroy(tbl, where) ==
  [table |-> {r \in tbl : ~Matches(r, where)},
   num |-> Cardinality({r \in tbl : Matches(r, where)})]

update(tbl, values, where) ==
  [table |-> {IF Matches(r, where) THEN ObjectAssign(r, values) ELSE r : r \in tbl},
   num |-> Cardinality({r \in tbl : Matches(r, where)})]

\* a bug: an insert that leaves the row the key had
upsertInsert(tbl, values) ==
  tbl \cup {[key |-> values.key,
             value |-> encodeValue(values.value),
             expires |-> values.expires]}

\* insert-or-replace on the primary key; the value attribute goes through
\* its setter; attributes that are no column of the table are not written
upsert(tbl, values) ==
  LET row == [key |-> values.key,
              value |-> encodeValue(values.value),
              expires |-> values.expires]
  IN {r \in tbl : r.key # row.key} \cup {row}

truncate(tbl) == {}

\* the orders a query without ORDER BY may answer a set of rows in
Orders(rows) ==
  {o \in [1..Cardinality(rows) -> rows] : \A r \in rows : \E i \in DOMAIN o : o[i] = r}

\* a row as the caller reads it: the value attribute goes through its getter
Instance(row) == [key |-> row.key, value |-> parseValue(row.value), expires |-> row.expires]

\* the answers a query may give: the rows the where clause matches, in an
\* order the table chooses at each query, from offset on and at most limit
findAll(tbl, where, offset, limit) ==
  LET rows == {r \in tbl : Matches(r, where)}
      first == IF isOptional(offset) THEN 1 ELSE offset.n + 1
      end == IF isOptional(limit) THEN Cardinality(rows)
             ELSE IF first + limit.n - 1 < Cardinality(rows) THEN first + limit.n - 1
             ELSE Cardinality(rows)
  IN {[i \in 1..(IF end < first THEN 0 ELSE end - first + 1) |->
         Instance(order[first + i - 1])] : order \in Orders(rows)}

\* SELECT COUNT(*) AS total
findAllCount(tbl, where) == Cardinality({r \in tbl : Matches(r, where)})

(***************************************************************************)
(* Promises.                                                               *)
(***************************************************************************)
Resolve(v) == [state |-> "resolved", value |-> v]
Reject(message) == [state |-> "rejected", message |-> message]

KeyNotFound(key) ==
  <<"k", "e", "y", " ", "n", "o", "t", " ", "f", "o", "u", "n", "d", ":", " ">> \o key

(***************************************************************************)
(* SequelizeDbMetaInstance.  Each method is an operator of the table, the  *)
(* clock reading of its `new Date()` and its arguments; a reader answers   *)
(* its promise, a writer [table |-> the table afterwards, promise |-> ..]. *)
(***************************************************************************)
\* a bug: the liveness condition is left out
LiveWhereKeyOnly(key, date) == [key |-> Eq(key)]

LiveWhere(key, date) == [key |-> Eq(key), expires |-> NullOrGt(date)]

_get(tbl, date, key) ==
  LET res == findOne(tbl, LiveWhere(key, date))
  IN IF res = {} THEN [value |-> Null, found |-> FALSE]
     ELSE [value |-> parseValue((CHOOSE r \in res : TRUE).value), found |-> TRUE]

getOrDefault(tbl, date, key, value) ==
  LET v == _get(tbl, date, key)
  IN IF ~v.found THEN Resolve(value) ELSE Resolve(v.value)

getOrNull(tbl, date, key) == getOrDefault(tbl, date, key, Null)

get(tbl, date, key) ==
  LET v == _get(tbl, date, key)
  IN IF ~v.found THEN Reject(KeyNotFound(key)) ELSE Resolve(v.value)

has(tbl, date, key) ==
  LET v == _get(tbl, date, key)
  IN IF ~v.found THEN Resolve(Bool(FALSE)) ELSE Resolve(Bool(TRUE))

\* a bug: the row is removed whether it is live or not
deleteAnyRow(tbl, date, key) ==
  LET d == destroy(tbl, [key |-> Eq(key)])
  IN [table |-> d.table, promise |-> Resolve(Bool(d.num > 0))]

delete(tbl, date, key) ==
  LET d == destroy(tbl, LiveWhere(key, date))
  IN [table |-> d.table, promise |-> Resolve(Bool(d.num > 0))]

\* a bug: expires is not reset, the row keeps the one it had
putKeepExpires(tbl, key, value, data) ==
  LET old == {r \in tbl : r.key = key}
      kept == IF old = {} THEN NULL ELSE (CHOOSE r \in old : TRUE).expires
  IN [table |-> upsert(tbl, ObjectAssign([key |-> key, value |-> value, expires |-> kept], data)),
      promise |-> Resolve(Undefined)]

put(tbl, key, value, data) ==
  [table |-> upsert(tbl, ObjectAssign([key |-> key, value |-> value, expires |-> NULL], data)),
   promise |-> Resolve(Undefined)]

\* a bug: null and undefined are merged like objects
assignOptionalMerged(tbl, date, key, value, data) ==
  IF isString(value) \/ isNumber(value) \/ isBoolean(value)
  THEN put(tbl, key, value, data)
  ELSE LET current == _get(tbl, date, key)
       IN IF ~current.found \/ isString(current.value) \/ isNumber(current.value)
             \/ isBoolean(current.value) \/ isOptional(current.value)
          THEN put(tbl, key, value, data)
          ELSE put(tbl, key, assignValue(current.value, value), data)

\* a bug that is none: the row is read again at the moment of the write
assignWriteFresh(tbl, key, value, data, current) ==
  LET fresh == _get(tbl, 0, key)
  IN IF ~fresh.found \/ isString(fresh.value) \/ isNumber(fresh.value)
        \/ isBoolean(fresh.value) \/ isOptional(fresh.value)
     THEN put(tbl, key, value, data)
     ELSE put(tbl, key, assignValue(fresh.value, value), data)

\* assign from the answer of its yield self._get(key) on
assignWrite(tbl, key, value, data, current) ==
  IF ~current.found \/ isString(current.value) \/ isNumber(current.value)
     \/ isBoolean(current.value) \/ isOptional(current.value)
  THEN put(tbl, key, value, data)
  ELSE put(tbl, key, assignValue(current.value, value), data)

assign(tbl, date, key, value, data) ==
  IF isString(value) \/ isNumber(value) \/ isBoolean(value) \/ isOptional(value)
  THEN put(tbl, key, value, data)
  ELSE assignWrite(tbl, key, value, data, _get(tbl, date, key))

\* date.setSeconds(date.getSeconds() + time): the seconds field is set to the
\* integer part of the sum, the milliseconds stay
setSeconds(date, time) == date + 2 * (time \div 2)

\* a bug: an expiration is only ever moved earlier
expireShortenOnly(tbl, now0, key, time) ==
  LET date == setSeconds(now0, time)
      live == {r \in tbl : Matches(r, [key |-> Eq(key), expires |-> NullOrGt(now0)])}
      earlier == {e \in UNION {r.expires : r \in live} : e < date}
      result == update(tbl, [expires |-> IF earlier = {} THEN Date(date) ELSE earlier],
                       [key |-> Eq(key), expires |-> NullOrGt(now0)])
  IN [table |-> result.table,
      promise |-> IF result.num < 1 THEN Reject(KeyNotFound(key)) ELSE Resolve(Undefined)]

\* a bug: the time is not added to the date
expireNow(tbl, now0, key, time) ==
  LET result == update(tbl, [expires |-> Date(now0)], LiveWhere(key, now0))
  IN [table |-> result.table,
      promise |-> IF result.num < 1 THEN Reject(KeyNotFound(key)) ELSE Resolve(Undefined)]

expire(tbl, now0, key, time) ==
  LET date == setSeconds(now0, time)
      result == update(tbl, [expires |-> Date(date)], LiveWhere(key, now0))
  IN [table |-> result.table,
      promise |-> IF result.num < 1 THEN Reject(KeyNotFound(key)) ELSE Resolve(Undefined)]

\* a bug: a row that expires at this very instant is kept
gcBefore(tbl, date) ==
  LET d == destroy(tbl, [expires |-> Lte(date - 1)])
  IN [table |-> d.table, promise |-> Resolve(Num(d.num))]

\* a bug: a row is removed half a second before it expires
gcAhead(tbl, date) ==
  LET d == destroy(tbl, [expires |-> Lte(date + 1)])
  IN [table |-> d.table, promise |-> Resolve(Num(d.num))]

gc(tbl, date) ==
  LET d == destroy(tbl, [expires |-> Lte(date)])
  IN [table |-> d.table, promise |-> Resolve(Num(d.num))]

\* a bug: only the rows without an expiration are removed
clearUnexpiring(tbl) ==
  [table |-> destroy(tbl, [expires |-> Eq(NULL)]).table, promise |-> Resolve(Undefined)]

clear(tbl) == [table |-> truncate(tbl), promise |-> Resolve(Undefined)]

\* pattern.replace(/\?/g, '_').replace(/\*/g, '%')
\* a bug: without the g flag only the first occurrence is replaced
replaceFirst(s, from, to) ==
  [i \in DOMAIN s |-> IF s[i] = from /\ (\A j \in 1..(i - 1) : s[j] # from) THEN to ELSE s[i]]

replace(s, from, to) == [i \in DOMAIN s |-> IF s[i] = from THEN to ELSE s[i]]

NoWhere == << >>

\* a bug: the liveness condition is laid over the caller's additions
ListWhereLiveOnly(date, pattern, where) ==
  ObjectAssign(
    ObjectAssign(where,
                 IF isOptional(pattern) THEN << >>
                 ELSE [key |-> Like(replace(replace(pattern.s, "?", "_"), "*", "%"))]),
    [expires |-> NullOrGt(date)])

\* the where clause of count and all: live rows, the key pattern when one
\* is given, and the caller's additions over both
ListWhere(date, pattern, where) ==
  ObjectAssign(
    ObjectAssign([expires |-> NullOrGt(date)],
                 IF isOptional(pattern) THEN << >>
                 ELSE [key |-> Like(replace(replace(pattern.s, "?", "_"), "*", "%"))]),
    where)

\* a bug: count leaves the key pattern out of its where clause
countAnyKey(tbl, date, pattern, where) ==
  Resolve(Num(findAllCount(tbl, ListWhere(date, Undefined, where))))

count(tbl, date, pattern, where) ==
  Resolve(Num(findAllCount(tbl, ListWhere(date, pattern, where))))

\* the promises all may answer, one for each order of the rows
all(tbl, date, start, length, pattern, where) ==
  {Resolve(rows) : rows \in findAll(tbl, ListWhere(date, pattern, where), start, length)}

(***************************************************************************)
(* _SequelizeDbMetaPrefixInstance: a view [_prefix |-> ..] of the store.   *)
(***************************************************************************)
\* a bug: the prefix is put after the key
_convertKeySuffix(view, key) ==
  IF isOptional(key) THEN view._prefix \o <<"*">> ELSE key.s \o view._prefix

_convertKey(view, key) ==
  IF isOptional(key) THEN view._prefix \o <<"*">> ELSE view._prefix \o key.s

Prefix_getOrDefault(view, tbl, date, key, value) ==
  getOrDefault(tbl, date, _convertKey(view, key), value)

Prefix_getOrNull(view, tbl, date, key) == getOrNull(tbl, date, _convertKey(view, key))

Prefix_get(view, tbl, date, key) == get(tbl, date, _convertKey(view, key))

Prefix_has(view, tbl, date, key) == has(tbl, date, _convertKey(view, key))

Prefix_delete(view, tbl, date, key) == delete(tbl, date, _convertKey(view, key))

Prefix_put(view, tbl, key, value, data) == put(tbl, _convertKey(view, key), value, data)

Prefix_assign(view, tbl, date, key, value, data) ==
  assign(tbl, date, _convertKey(view, key), value, data)

\* a bug: the key is given the prefix like the others
Prefix_expireConverted(view, tbl, date, key, time) ==
  expire(tbl, date, _convertKey(view, key), time)

\* the key goes to the store as it came
Prefix_expire(view, tbl, date, key, time) == expire(tbl, date, key.s, time)

Prefix_gc(view, tbl, date) == gc(tbl, date)

Prefix_clear(view, tbl) == clear(tbl)

Prefix_count(view, tbl, date, pattern, where) ==
  count(tbl, date, Str(_convertKey(view, pattern)), where)

\* record.key.substr(this._prefix.length)
substr(s, start) == SubSeq(s, start + 1, Len(s))

Prefix_all(view, tbl, date, start, length, pattern, where) ==
  {Resolve([i \in DOMAIN p.value |->
              [p.value[i] EXCEPT !.key = substr(@, Len(view._prefix))]])
     : p \in all(tbl, date, start, length, Str(_convertKey(view, pattern)), where)}

\* store.prefix(newPrefix) and view.prefix(newPrefix)
prefix(self, newPrefix) == [_master |-> self, _prefix |-> newPrefix.s]

\* what evaluating an expression comes to: its value, or a throw
Returns(v) == [state |-> "returned", value |-> v]
Throws(error) == [state |-> "thrown", error |-> error]

\* get tableName() of the store: this._tableName, that is the name the
\* constructor was given, or '__metadb' when it was given none
tableName(self) == Str(<<"_", "_", "m", "e", "t", "a", "d", "b">>)

\* get tableName() of a view: this._master.tableName().  The store's getter
\* has answered by the time of the call, and what is called is its answer
Prefix_tableName(view) ==
  LET callee == tableName(view._master)
  IN IF callee.t = "function"
     THEN Returns(Undefined)
     ELSE Throws("TypeError")

\* tableName() of the facade: _globalInstance.tableName
Facade_tableName(instance) == Returns(tableName(instance))

\* a bug: the view of a view forgets the first prefix
Prefix_prefixAlone(view, newPrefix) == [_master |-> view._master, _prefix |-> newPrefix.s]

Prefix_prefix(view, newPrefix) ==
  [_master |-> view._master, _prefix |-> _convertKey(view, newPrefix)]

(***************************************************************************)
(* Garbage collection on a schedule.  A task of node-cron is a record      *)
(* [ref |-> the store it was made for, state |-> "started" or              *)
(* "destroyed"]; the tasks made so far are a sequence, a task is named by  *)
(* its place in it, and NoTask is the null of a store's _task.             *)
(***************************************************************************)
NoTask == 0

\* cron.schedule(schedule, callback) and task.start()
scheduleGc(tsks, ref) == Append(tsks, [ref |-> ref, state |-> "started"])

\* task.destroy()
taskDestroy(tsks, t) == [tsks EXCEPT ![t].state = "destroyed"]

\* weak.get(ref): the store, or undefined once it has been reclaimed
weakGet(ref, reclaimed) == IF ref \in reclaimed THEN Undefined ELSE Num(ref)

\* a bug: the callback looks at the store and does not sweep
callbackIdle(tsks, t, reclaimed, counter, tbl, date) ==
  LET instance == weakGet(tsks[t].ref, reclaimed)
  IN IF isOptional(instance)
     THEN [tasks |-> taskDestroy(tsks, t), counter |-> counter + 1, table |-> tbl]
     ELSE [tasks |-> tsks, counter |-> counter, table |-> tbl]

\* a bug: the task of a reclaimed store is counted and left started
callbackKeepsTicking(tsks, t, reclaimed, counter, tbl, date) ==
  LET instance == weakGet(tsks[t].ref, reclaimed)
  IN IF isOptional(instance)
     THEN [tasks |-> tsks, counter |-> counter + 1, table |-> tbl]
     ELSE [tasks |-> tsks, counter |-> counter, table |-> gc(tbl, date).table]

\* a bug: the task holds the store itself, which is then never reclaimed
callbackStrong(tsks, t, reclaimed, counter, tbl, date) ==
  [tasks |-> tsks, counter |-> counter, table |-> gc(tbl, date).table]

\* the callback that scheduleGc gives to cron.schedule, run at a tick of
\* the task t
callback(tsks, t, reclaimed, counter, tbl, date) ==
  LET instance == weakGet(tsks[t].ref, reclaimed)
  IN IF isOptional(instance)
     THEN [tasks |-> taskDestroy(tsks, t), counter |-> counter + 1, table |-> tbl]
     ELSE [tasks |-> tsks, counter |-> counter, table |-> gc(tbl, date).table]

\* a bug: the task in place is left running
monitorKeepTask(tsks, task, self) ==
  [tasks |-> scheduleGc(tsks, self), _task |-> Len(tsks) + 1]

\* monitor(schedule) of the store self, whose _task is task
monitor(tsks, task, self) ==
  LET stopped == IF task # NoTask THEN taskDestroy(tsks, task) ELSE tsks
  IN [tasks |-> scheduleGc(stopped, self), _task |-> Len(stopped) + 1]

Prefix_monitor(view, tsks, task) == monitor(tsks, task, view._master)

\* a bug: init destroys the task of the store it replaces
initDestroys(tsks, _tsk, instance, fresh) ==
  [_globalInstance |-> fresh,
   tasks |-> IF _tsk[instance] # NoTask THEN taskDestroy(tsks, _tsk[instance])
             ELSE tsks,
   _task |-> [_tsk EXCEPT ![fresh] = NoTask]]

\* init(sequelize) of the facade, whose _globalInstance is instance: fresh
\* is the store that new SequelizeDbMetaInstance(sequelize) makes, with the
\* _task (null) its constructor sets
init(tsks, _tsk, instance, fresh) ==
  [_globalInstance |-> fresh, tasks |-> tsks,
   _task |-> [_tsk EXCEPT ![fresh] = NoTask]]

(***************************************************************************)
(* The state: the table, the clock, and the last call with its arguments,  *)
(* its promise, the table it found and the clock reading it took; the      *)
(* store objects over the table with their _task, the cron tasks that      *)
(* scheduleGc has made, the store objects that have been reclaimed, and    *)
(* the destroy counter of the process.                                     *)
(***************************************************************************)
VARIABLES table, now, last, _task, tasks, collected, __destroyCounter,
          txn, running, process, _globalInstance

vars ==
  <<table, now, last, _task, tasks, collected, __destroyCounter, txn, running,
    process, _globalInstance>>

monitoring == <<_task, tasks, collected, __destroyCounter>>

\* txn: the transaction of sequelize.transaction(..) that is open, with the
\* table as its own calls see it; running: the calls of assign that have
\* read the row and not yet written; process: the node process, "running"
\* until an uncaught error ends it ("exited"); _globalInstance: the store
\* object the facade's functions call, the one the last init(sequelize) made
inflight == <<txn, running, process, _globalInstance>>

NoTxn == [open |-> FALSE]
Callers == {1, 2}
Idle == [pc |-> "idle"]

NoData == << >>
NoKey == << >>

\* the store objects over the table: the one init(sequelize) has made for
\* the facade, and one made with new MetaDB or by another init(sequelize)
Stores == {1, 2}

Call(op, key, value, data, time, promise) ==
  [op |-> op, key |-> key, value |-> value, data |-> data, time |-> time,
   promise |-> promise, before |-> table, at |-> now]

\* a bug: a reader destroys the expired rows on its way
ReadSweeps(op, key, value, promise) ==
  /\ last' = Call(op, key, value, NoData, 0, promise)
  /\ table' = gc(table, now).table
  /\ UNCHANGED <<now, monitoring, inflight>>

Read(op, key, value, promise) ==
  /\ last' = Call(op, key, value, NoData, 0, promise)
  /\ UNCHANGED <<table, now, monitoring, inflight>>

Write(op, key, value, data, time, r) ==
  /\ table' = r.table
  /\ last' = Call(op, key, value, data, time, r.promise)
  /\ UNCHANGED <<now, monitoring, inflight>>

Get(key) == Read("get", key, Undefined, get(table, now, key))

GetOrDefault(key, value) ==
  Read("getOrDefault", key, value, getOrDefault(table, now, key, value))

GetOrNull(key) == Read("getOrNull", key, Undefined, getOrNull(table, now, key))

Has(key) == Read("has", key, Undefined, has(table, now, key))

Delete(key) == Write("delete", key, Undefined, NoData, 0, delete(table, now, key))

Put(key, value, data) == Write("put", key, value, data, 0, put(table, key, value, data))

Assign(key, value, data) ==
  Write("assign", key, value, data, 0, assign(table, now, key, value, data))

Expire(key, time) ==
  Write("expire", key, Undefined, NoData, time, expire(table, now, key, time))

Gc == Write("gc", NoKey, Undefined, NoData, 0, gc(table, now))

Clear == Write("clear", NoKey, Undefined, NoData, 0, clear(table))

\* the clock advances between calls
Tick ==
  /\ now < MaxTime
  /\ now' = now + 1
  /\ UNCHANGED <<table, last, monitoring, inflight>>

Init ==
  /\ table = {}
  /\ now = 0
  /\ last = [op |-> "init", key |-> NoKey, value |-> Undefined, data |-> NoData,
             time |-> 0, promise |-> Resolve(Undefined), before |-> {}, at |-> 0]
  /\ _task = [s \in Stores |-> NoTask]
  /\ tasks = << >>
  /\ collected = {}
  /\ __destroyCounter = 0
  /\ txn = NoTxn
  /\ running = [c \in Callers |-> Idle]
  /\ process = "running"
  /\ _globalInstance = 1

(***************************************************************************)
(* The arguments the calls are made with.                                  *)
(***************************************************************************)
ObjA1 == Obj([n \in { <<"a">> } |-> Num(1)])
ObjB2 == Obj([n \in { <<"b">> } |-> Num(2)])

Keys == { <<"k">>, <<"q">> }
Values == {Str(<<"s">>), ObjA1}
Defaults == {Str(<<"d">>)}
Seconds == 0..MaxSeconds
DataArgs == {NoData, [expires |-> Date(1)], [key |-> <<"q">>], [note |-> Num(1)]}

Next ==
  \/ \E k \in Keys : Get(k)
  \/ \E k \in Keys, d \in Defaults : GetOrDefault(k, d)
  \/ \E k \in Keys : GetOrNull(k)
  \/ \E k \in Keys : Has(k)
  \/ \E k \in Keys : Delete(k)
  \/ \E k \in Keys, v \in Values, data \in DataArgs : Put(k, v, data)
  \/ \E k \in Keys, v \in Values, data \in DataArgs : Assign(k, v, data)
  \/ \E k \in Keys, t \in Seconds : Expire(k, t)
  \/ Gc
  \/ Clear
  \/ Tick

Spec == Init /\ [][Next]_vars

(***************************************************************************)
(* The same store with one key and values of every JSON kind: a string     *)
(* with a quote in it, nested objects, an array.                           *)
(***************************************************************************)
ObjAA == Obj([n \in { <<"a">> } |-> ObjA1])
ObjAB == Obj([n \in { <<"a">> } |-> ObjB2])
Arr1 == Arr(<<Num(1)>>)

RichKeys == { <<"k">> }
RichValues ==
  {Undefined, Null, Bool(TRUE), Num(12), Str(<<"a", "\"">>),
   ObjA1, ObjB2, ObjAA, ObjAB, Arr1}

NextValues ==
  \/ \E k \in RichKeys : Get(k)
  \/ \E k \in RichKeys, d \in Defaults : GetOrDefault(k, d)
  \/ \E k \in RichKeys : GetOrNull(k)
  \/ \E k \in RichKeys : Has(k)
  \/ \E k \in RichKeys : Delete(k)
  \/ \E k \in RichKeys, v \in RichValues : Put(k, v, NoData)
  \/ \E k \in RichKeys, v \in RichValues : Assign(k, v, NoData)
  \/ \E k \in RichKeys, t \in Seconds : Expire(k, t)
  \/ Gc
  \/ Clear
  \/ Tick

SpecValues == Init /\ [][NextValues]_vars


(***************************************************************************)
(* Calls of count and all, and calls through a prefix view.  The call      *)
(* record names the view and the key as the caller gave it.                *)
(***************************************************************************)
\* the page that the store's all answered just before a call that asks for
\* the rows from an offset on
NoPrior == << >>
Prior(op, start) ==
  IF op = "all" /\ last.op = "all" /\ ~isOptional(start)
  THEN [start |-> last.start, length |-> last.length, pattern |-> last.pattern,
        where |-> last.where, promise |-> last.promise,
        before |-> last.before, at |-> last.at]
  ELSE NoPrior

ListCall(op, view, start, length, pattern, where, promise) ==
  [op |-> op, view |-> view, start |-> start, length |-> length,
   pattern |-> pattern, where |-> where, promise |-> promise,
   before |-> table, at |-> now, prior |-> Prior(op, start)]

NoView == [_master |-> _globalInstance, _prefix |-> << >>]

Count(pattern, where) ==
  /\ last' = ListCall("count", NoView, Undefined, Undefined, pattern, where,
                      count(table, now, pattern, where))
  /\ UNCHANGED <<table, now, monitoring, inflight>>

All(start, length, pattern, where) ==
  /\ \E promise \in all(table, now, start, length, pattern, where) :
        last' = ListCall("all", NoView, start, length, pattern, where, promise)
  /\ UNCHANGED <<table, now, monitoring, inflight>>

ViewCount(view, pattern, where) ==
  /\ last' = ListCall("view.count", view, Undefined, Undefined, pattern, where,
                      Prefix_count(view, table, now, pattern, where))
  /\ UNCHANGED <<table, now, monitoring, inflight>>

ViewAll(view, start, length, pattern, where) ==
  /\ \E promise \in Prefix_all(view, table, now, start, length, pattern, where) :
        last' = ListCall("view.all", view, start, length, pattern, where, promise)
  /\ UNCHANGED <<table, now, monitoring, inflight>>

ViewCall(op, view, key, value, data, time, promise) ==
  [op |-> op, view |-> view, key |-> key, value |-> value, data |-> data,
   time |-> time, promise |-> promise, before |-> table, at |-> now]

ViewRead(op, view, key, value, promise) ==
  /\ last' = ViewCall(op, view, key, value, NoData, 0, promise)
  /\ UNCHANGED <<table, now, monitoring, inflight>>

ViewWrite(op, view, key, value, data, time, r) ==
  /\ table' = r.table
  /\ last' = ViewCall(op, view, key, value, data, time, r.promise)
  /\ UNCHANGED <<now, monitoring, inflight>>

ViewGet(view, key) ==
  ViewRead("view.get", view, key, Undefined, Prefix_get(view, table, now, Str(key)))

ViewGetOrDefault(view, key, value) ==
  ViewRead("view.getOrDefault", view, key, value,
           Prefix_getOrDefault(view, table, now, Str(key), value))

ViewGetOrNull(view, key) ==
  ViewRead("view.getOrNull", view, key, Undefined,
           Prefix_getOrNull(view, table, now, Str(key)))

ViewHas(view, key) ==
  ViewRead("view.has", view, key, Undefined, Prefix_has(view, table, now, Str(key)))

ViewDelete(view, key) ==
  ViewWrite("view.delete", view, key, Undefined, NoData, 0,
            Prefix_delete(view, table, now, Str(key)))

ViewPut(view, key, value, data) ==
  ViewWrite("view.put", view, key, value, data, 0,
            Prefix_put(view, table, Str(key), value, data))

ViewAssign(view, key, value, data) ==
  ViewWrite("view.assign", view, key, value, data, 0,
            Prefix_assign(view, table, now, Str(key), value, data))

ViewExpire(view, key, time) ==
  ViewWrite("view.expire", view, key, Undefined, NoData, time,
            Prefix_expire(view, table, now, Str(key), time))

ViewGc(view) ==
  ViewWrite("view.gc", view, NoKey, Undefined, NoData, 0, Prefix_gc(view, table, now))

ViewClear(view) ==
  ViewWrite("view.clear", view, NoKey, Undefined, NoData, 0, Prefix_clear(view, table))

(***************************************************************************)
(* The store with two views of it, one made from the other: the store's    *)
(* own keys k and pk, and the views' key k, stored as pk and pqk.          *)
(***************************************************************************)
Prefixes == { <<"p">>, <<"q">> }
ViewP == prefix(_globalInstance, Str(<<"p">>))
ViewPQ == Prefix_prefix(ViewP, Str(<<"q">>))
Views == {ViewP, ViewPQ}
ViewKeys == { <<"k">> }
PrefixKeys == { <<"k">>, <<"p", "k">> }
PrefixValues == {Str(<<"s">>)}
\* times of a whole number of seconds
WholeSeconds == {t \in Seconds : t % 2 = 0}

NextPrefix ==
  \/ \E k \in PrefixKeys : Get(k)
  \/ \E k \in PrefixKeys, v \in PrefixValues : Put(k, v, NoData)
  \/ \E k \in PrefixKeys, t \in WholeSeconds : Expire(k, t)
  \/ Gc
  \/ Clear
  \/ Tick
  \/ Count(Undefined, NoWhere)
  \/ All(Undefined, Undefined, Undefined, NoWhere)
  \/ \E w \in Views, k \in ViewKeys : ViewGet(w, k)
  \/ \E w \in Views, k \in ViewKeys, d \in Defaults : ViewGetOrDefault(w, k, d)
  \/ \E w \in Views, k \in ViewKeys : ViewGetOrNull(w, k)
  \/ \E w \in Views, k \in ViewKeys : ViewHas(w, k)
  \/ \E w \in Views, k \in ViewKeys : ViewDelete(w, k)
  \/ \E w \in Views, k \in ViewKeys, v \in PrefixValues : ViewPut(w, k, v, NoData)
  \/ \E w \in Views, k \in ViewKeys, v \in PrefixValues : ViewAssign(w, k, v, NoData)
  \/ \E w \in Views, k \in ViewKeys, t \in WholeSeconds : ViewExpire(w, k, t)
  \/ \E w \in Views : ViewGc(w)
  \/ \E w \in Views : ViewClear(w)
  \/ \E w \in Views : ViewCount(w, Undefined, NoWhere)
  \/ \E w \in Views : ViewAll(w, Undefined, Undefined, Undefined, NoWhere)

SpecPrefix == Init /\ [][NextPrefix]_vars

(***************************************************************************)
(* Counting and listing: the store with the keys key-1, key-2 and qqq-1,   *)
(* patterns over them, and two views, one of whose prefix holds a ?.       *)
(***************************************************************************)
Key1 == <<"k", "e", "y", "-", "1">>
Key2 == <<"k", "e", "y", "-", "2">>
Qqq1 == <<"q", "q", "q", "-", "1">>
ListKeys == {Key1, Key2, Qqq1}
ListValues == {Str(<<"v">>)}

Patterns ==
  {Undefined,
   Str(<<"k", "e", "y", "-", "*">>), Str(<<"q", "q", "q", "-", "*">>),
   Str(<<"~", "~", "~", "~">>), Str(<<"?", "?", "?", "-", "1">>),
   Str(<<"*">>), Str(<<"k", "e", "y", "_", "1">>), Str(<<"k", "%">>)}

ViewKey == prefix(_globalInstance, Str(<<"k", "e", "y", "-">>))
ViewWild == prefix(_globalInstance, Str(<<"k", "?", "y", "-">>))
ListViews == {ViewKey, ViewWild}
ViewPatterns == {Undefined, Str(<<"?">>)}

\* all(), all(null, 1), all(null, 2)
Pages == {<<Undefined, Undefined>>, <<Null, Num(1)>>, <<Null, Num(2)>>}

NextList ==
  \/ \E k \in ListKeys, v \in ListValues : Put(k, v, NoData)
  \/ \E k \in ListKeys, t \in WholeSeconds : Expire(k, t)
  \/ Gc
  \/ Clear
  \/ Tick
  \/ \E pattern \in Patterns : Count(pattern, NoWhere)
  \/ \E page \in Pages, pattern \in {Undefined, Str(<<"k", "e", "y", "-", "*">>)} :
        All(page[1], page[2], pattern, NoWhere)
  \/ \E w \in ListViews, pattern \in ViewPatterns : ViewCount(w, pattern, NoWhere)
  \/ \E w \in ListViews, pattern \in ViewPatterns :
        ViewAll(w, Undefined, Undefined, pattern, NoWhere)
  \/ \E w \in ListViews : ViewClear(w)

SpecList == Init /\ [][NextList]_vars

(***************************************************************************)
(* Counting with a filter of the caller's: count(null, {expires: {$ne:     *)
(* null}}) beside put, expire and gc.                                      *)
(***************************************************************************)
Wheres == {[expires |-> Ne(NULL)]}

NextFilter ==
  \/ \E k \in ListKeys, v \in ListValues : Put(k, v, NoData)
  \/ \E k \in ListKeys, t \in WholeSeconds : Expire(k, t)
  \/ Gc
  \/ Tick
  \/ \E pattern \in {Undefined, Null} : Count(pattern, NoWhere)
  \/ \E where \in Wheres : Count(Null, where)

SpecFilter == Init /\ [][NextFilter]_vars

(***************************************************************************)
(* Counting and listing through the view p with a filter of the caller's,  *)
(* on the expires column or on the key column.                             *)
(***************************************************************************)
ViewWheres ==
  {NoWhere, [expires |-> Ne(NULL)], [key |-> Like(<<"%">>)], [key |-> Eq(<<"k">>)]}

NextViewFilter ==
  \/ \E k \in PrefixKeys, v \in PrefixValues : Put(k, v, NoData)
  \/ \E k \in PrefixKeys, t \in WholeSeconds : Expire(k, t)
  \/ Tick
  \/ \E where \in ViewWheres : ViewCount(ViewP, Undefined, where)
  \/ \E where \in ViewWheres : ViewAll(ViewP, Undefined, Undefined, Undefined, where)

SpecViewFilter == Init /\ [][NextViewFilter]_vars

(***************************************************************************)
(* Reading the store page by page: two keys, all(start, length) for every  *)
(* start and length up to the number of keys.                              *)
(***************************************************************************)
PageKeys == {Key1, Key2}
PageNumbers == {Num(n) : n \in 0..Cardinality(PageKeys)}

NextPages ==
  \/ \E k \in PageKeys, v \in ListValues : Put(k, v, NoData)
  \/ \E k \in PageKeys, t \in WholeSeconds : Expire(k, t)
  \/ \E k \in PageKeys : Delete(k)
  \/ Tick
  \/ \E start \in PageNumbers, length \in PageNumbers :
        All(start, length, Undefined, NoWhere)

SpecPages == Init /\ [][NextPages]_vars

(***************************************************************************)
(* Calls of monitor, the ticks of the tasks and the reclaiming of a store  *)
(* object that nothing refers to any more.  The record of each names the   *)
(* tasks, the stores' _task, the reclaimed stores and the counter as they  *)
(* were before.                                                            *)
(***************************************************************************)
MonitorCall(op, self, task) ==
  [op |-> op, store |-> self, task |-> task, before |-> table, at |-> now,
   tasks |-> tasks, _task |-> _task, collected |-> collected,
   counter |-> __destroyCounter]

Installs(op, self, r) ==
  /\ self \notin collected
  /\ Len(tasks) < MaxTasks
  /\ tasks' = r.tasks
  /\ _task' = [_task EXCEPT ![self] = r._task]
  /\ last' = MonitorCall(op, self, r._task)
  /\ UNCHANGED <<table, now, collected, __destroyCounter, inflight>>

Monitor(self) == Installs("monitor", self, monitor(tasks, _task[self], self))

FacadeMonitor ==
  Installs("facade.monitor", _globalInstance,
           monitor(tasks, _task[_globalInstance], _globalInstance))

ViewMonitor(view) ==
  Installs("view.monitor", view._master,
           Prefix_monitor(view, tasks, _task[view._master]))

\* the schedule of a started task comes round
CronTick(t) ==
  /\ process = "running"
  /\ t \in DOMAIN tasks
  /\ tasks[t].state = "started"
  /\ LET r == callback(tasks, t, collected, __destroyCounter, table, now)
     IN /\ tasks' = r.tasks
        /\ __destroyCounter' = r.counter
        /\ table' = r.table
  /\ last' = MonitorCall("cron", tasks[t].ref, t)
  /\ UNCHANGED <<now, _task, collected, inflight>>

\* the last reference to a store object is dropped and the object reclaimed;
\* the weak reference of its task does not keep it
Collect(self) ==
  /\ self \notin collected
  /\ collected' = collected \cup {self}
  /\ last' = MonitorCall("collect", self, _task[self])
  /\ UNCHANGED <<table, now, _task, tasks, __destroyCounter, inflight>>

(***************************************************************************)
(* The stores with their tasks, over a table of one key.                   *)
(***************************************************************************)
MonitorKeys == { <<"k">> }
MonitorViews == {prefix(self, Str(<<"p">>)) : self \in Stores}

NextMonitor ==
  \/ collected # Stores /\ \E k \in MonitorKeys, v \in ListValues : Put(k, v, NoData)
  \/ collected # Stores /\ \E k \in MonitorKeys, t \in WholeSeconds : Expire(k, t)
  \/ Tick
  \/ \E self \in Stores : Monitor(self)
  \/ FacadeMonitor
  \/ \E w \in MonitorViews : ViewMonitor(w)
  \/ \E t \in DOMAIN tasks : CronTick(t)
  \/ \E self \in Stores : Collect(self)

SpecMonitor == Init /\ [][NextMonitor]_vars

(***************************************************************************)
(* The store left to its scheduled sweeps: no caller calls gc, no store is *)
(* reclaimed, and the schedule of every started task keeps coming round.   *)
(***************************************************************************)
NextSweep ==
  \/ \E k \in Keys, v \in ListValues : Put(k, v, NoData)
  \/ \E k \in Keys, t \in WholeSeconds : Expire(k, t)
  \/ Tick
  \/ Monitor(_globalInstance)
  \/ \E t \in 1..MaxTasks : CronTick(t)

SpecSweep ==
  Init /\ [][NextSweep]_vars /\ \A t \in 1..MaxTasks : WF_vars(CronTick(t))

(***************************************************************************)
(* A tick at which the table fails the destroy of gc.  The callback calls  *)
(* instance.gc() and returns: the promise gc answers has no handler, and   *)
(* what becomes of its rejection is up to the promise library and the      *)
(* runtime: it is printed and the process goes on, nothing happens at all, *)
(* or the runtime raises it as an uncaught error and the process ends.     *)
(***************************************************************************)
Unhandled == {"printed", "dropped", "exit"}

CronTickRejects(t, outcome) ==
  /\ process = "running"
  /\ t \in DOMAIN tasks
  /\ tasks[t].state = "started"
  /\ ~isOptional(weakGet(tasks[t].ref, collected))
  /\ process' = IF outcome = "exit" THEN "exited" ELSE "running"
  /\ last' = [op |-> "cron", store |-> tasks[t].ref, task |-> t,
              before |-> table, at |-> now, tasks |-> tasks, _task |-> _task,
              collected |-> collected, counter |-> __destroyCounter,
              sweep |-> "rejected", unhandled |-> outcome]
  /\ UNCHANGED <<table, now, monitoring, txn, running, _globalInstance>>

NextFailure ==
  \/ process = "running" /\ \E k \in MonitorKeys, v \in ListValues : Put(k, v, NoData)
  \/ process = "running" /\ \E k \in MonitorKeys, t \in WholeSeconds : Expire(k, t)
  \/ process = "running" /\ Tick
  \/ process = "running" /\ \E self \in Stores : Monitor(self)
  \/ \E t \in 1..MaxTasks : CronTick(t)
  \/ \E t \in 1..MaxTasks, outcome \in Unhandled : CronTickRejects(t, outcome)

SpecFailure == Init /\ [][NextFailure]_vars

(***************************************************************************)
(* Transactions.  The handle of sequelize.transaction(..) is an object     *)
(* whose own properties are no columns of the table.  A transaction that   *)
(* is open has the table as it was when it began and the table as its own  *)
(* calls see it; a call joins it when its table call is given the handle   *)
(* in its options, and also when the connection is the only one there is   *)
(* (shared), as with an in-memory database.  A call that has not joined   *)
(* works on the table itself, and waits for the rows the transaction has  *)
(* written.  outside keeps the keys written, while the transaction is     *)
(* open, by calls other than a put, assign, expire, delete or clear that  *)
(* was given the handle.                                                   *)
(***************************************************************************)
Transaction == [t |-> "object", id |-> 1]

\* type.isOptional(transaction) ? null : {transaction: transaction}
options(transaction) == IF isOptional(transaction) THEN Null ELSE transaction

Surfaces == {"store", "view", "facade"}

\* what the method of a view hands to the store's method of the same name
Prefix_passes(op, data, transaction) ==
  IF op = "gc"
  THEN [data |-> NoData, transaction |-> Undefined]
  ELSE [data |-> data, transaction |-> transaction]

\* what the facade's function hands to _globalInstance's method: put has
\* the parameters (key, value, transaction) and calls put(key, value,
\* transaction), whose third parameter is data
Facade_passes(op, data, transaction) ==
  CASE op = "gc" -> [data |-> NoData, transaction |-> Undefined]
    [] op = "put" -> [data |-> IF isOptional(transaction) THEN NoData ELSE transaction,
                      transaction |-> Undefined]
    [] OTHER -> [data |-> data, transaction |-> transaction]

\* what _globalInstance's method of the same name receives when it is called
\* with the arguments the facade's function was called with: put(key, value,
\* transaction) takes the third as data, gc(transaction) takes the handle
Store_receives(op, data, transaction) ==
  IF op = "put"
  THEN [data |-> IF isOptional(transaction) THEN NoData ELSE transaction,
        transaction |-> Undefined]
  ELSE [data |-> data, transaction |-> transaction]

Passes(surface, op, data, transaction) ==
  CASE surface = "view" -> Prefix_passes(op, data, transaction)
    [] surface = "facade" -> Facade_passes(op, data, transaction)
    [] OTHER -> [data |-> data, transaction |-> transaction]

Answer(tbl, promise) == [table |-> tbl, promise |-> promise]

\* the method op of the store on the table tbl
Store_run(op, tbl, date, key, value, data, time) ==
  CASE op = "put" -> put(tbl, key, value, data)
    [] op = "assign" -> assign(tbl, date, key, value, data)
    [] op = "expire" -> expire(tbl, date, key, time)
    [] op = "delete" -> delete(tbl, date, key)
    [] op = "clear" -> clear(tbl)
    [] op = "gc" -> gc(tbl, date)
    [] op = "getOrDefault" -> Answer(tbl, getOrDefault(tbl, date, key, value))
    [] op = "count" -> Answer(tbl, count(tbl, date, Undefined, NoWhere))

\* the method op of a view on the table tbl
Prefix_run(view, op, tbl, date, key, value, data, time) ==
  CASE op = "put" -> Prefix_put(view, tbl, Str(key), value, data)
    [] op = "assign" -> Prefix_assign(view, tbl, date, Str(key), value, data)
    [] op = "expire" -> Prefix_expire(view, tbl, date, Str(key), time)
    [] op = "delete" -> Prefix_delete(view, tbl, date, Str(key))
    [] op = "clear" -> Prefix_clear(view, tbl)
    [] op = "gc" -> Prefix_gc(view, tbl, date)
    [] op = "getOrDefault" ->
         Answer(tbl, Prefix_getOrDefault(view, tbl, date, Str(key), value))
    [] op = "count" -> Answer(tbl, Prefix_count(view, tbl, date, Undefined, NoWhere))

Run(surface, op, tbl, date, key, value, data, time) ==
  IF surface = "view"
  THEN Prefix_run(ViewP, op, tbl, date, key, value, data, time)
  ELSE Store_run(op, tbl, date, key, value, data, time)

\* the keys whose rows differ between two tables
Changed(a, b) == {r.key : r \in (a \ b) \cup (b \ a)}

RolledBackOps == {"put", "assign", "expire", "delete", "clear"}

TxnCall(surface, op, key, value, time, transaction) ==
  LET passed == Passes(surface, op, NoData, transaction)
      under == options(passed.transaction)
      joined == txn.open /\ (txn.shared \/ ~isOptional(under))
      seen == IF joined THEN txn.view ELSE table
      r == Run(surface, op, seen, now, key, value, passed.data, time)
      touched == Changed(seen, r.table)
      counted == IF ~isOptional(transaction) /\ op \in RolledBackOps
                 THEN {} ELSE touched
  IN /\ ~isOptional(transaction) => txn.open
     /\ (txn.open /\ ~joined) => touched \cap Changed(txn.begin, txn.view) = {}
     /\ table' = IF joined THEN table ELSE r.table
     /\ txn' = IF ~txn.open THEN txn
               ELSE [txn EXCEPT !.view = IF joined THEN r.table ELSE @,
                                !.outside = @ \cup counted]
     /\ last' = [op |-> op, surface |-> surface, key |-> key, value |-> value,
                 time |-> time, given |-> transaction, data |-> passed.data,
                 under |-> under, joined |-> joined, promise |-> r.promise,
                 before |-> table, at |-> now]
     /\ UNCHANGED <<now, monitoring, running, process, _globalInstance>>

TxnEvent(op) ==
  [op |-> op, begin |-> IF txn.open THEN txn.begin ELSE table,
   outside |-> IF txn.open THEN txn.outside ELSE {},
   promise |-> Resolve(Undefined), before |-> table, at |-> now]

\* sequelize.transaction(t => ..): the callback is entered
Begin(shared) ==
  /\ ~txn.open
  /\ txn' = [open |-> TRUE, shared |-> shared, begin |-> table, view |-> table,
             outside |-> {}]
  /\ last' = TxnEvent("begin")
  /\ UNCHANGED <<table, now, monitoring, running, process, _globalInstance>>

\* the callback's promise resolves
Commit ==
  /\ txn.open
  /\ table' = {r \in table : r.key \notin Changed(txn.begin, txn.view)}
                \cup {r \in txn.view : r.key \in Changed(txn.begin, txn.view)}
  /\ txn' = NoTxn
  /\ last' = TxnEvent("commit")
  /\ UNCHANGED <<now, monitoring, running, process, _globalInstance>>

\* the callback's promise rejects
Rollback ==
  /\ txn.open
  /\ txn' = NoTxn
  /\ last' = TxnEvent("rollback")
  /\ UNCHANGED <<table, now, monitoring, running, process, _globalInstance>>

\* the one row of the table: the store and the facade know it as pk, the
\* view p as k
TxnKeys == { <<"k">> }
KeyOf(surface) == IF surface = "view" THEN <<"k">> ELSE <<"p", "k">>
Handles == {Undefined, Transaction}

NextTxn ==
  \/ \E shared \in BOOLEAN : Begin(shared)
  \/ Commit
  \/ Rollback
  \/ \E s \in Surfaces, t \in Handles : TxnCall(s, "put", KeyOf(s), ObjA1, 0, t)
  \/ \E s \in Surfaces, t \in Handles : TxnCall(s, "assign", KeyOf(s), ObjA1, 0, t)
  \/ \E s \in Surfaces, t \in Handles : TxnCall(s, "expire", KeyOf(s), Undefined, 0, t)
  \/ \E s \in Surfaces, t \in Handles : TxnCall(s, "delete", KeyOf(s), Undefined, 0, t)
  \/ \E s \in Surfaces, t \in Handles : TxnCall(s, "clear", NoKey, Undefined, 0, t)
  \/ \E s \in Surfaces, t \in Handles : TxnCall(s, "gc", NoKey, Undefined, 0, t)
  \/ \E s \in Surfaces, d \in Defaults, t \in Handles :
       TxnCall(s, "getOrDefault", KeyOf(s), d, 0, t)
  \/ \E s \in Surfaces, t \in Handles : TxnCall(s, "count", NoKey, Undefined, 0, t)

SpecTxn == Init /\ [][NextTxn]_vars

(***************************************************************************)
(* Two callers of assign at once, with no transaction.  assign is a        *)
(* generator run by task.spawn: it yields at self._get(key) and again at   *)
(* self.put(..), so another call can run between its read and its write.   *)
(* A call under way keeps its arguments, the row it has read, and whether  *)
(* an assign has written since it read (overlapped).  The record of a      *)
(* read or a write names the nearest assign write before it (prior).       *)
(***************************************************************************)
ObjC3 == Obj([n \in { <<"c">> } |-> Num(3)])

PriorWrite ==
  CASE last.op = "assignWrite" -> [value |-> last.value, caller |-> last.caller]
    [] last.op = "assignRead" -> last.prior
    [] OTHER -> NoPrior

\* assign up to its yield self._get(key, transaction); value is no scalar
AssignRead(c, key, value) ==
  /\ running[c] = Idle
  /\ ~(isString(value) \/ isNumber(value) \/ isBoolean(value) \/ isOptional(value))
  /\ running' = [running EXCEPT ![c] =
                   [pc |-> "read", key |-> key, value |-> value,
                    current |-> _get(table, now, key), overlapped |-> FALSE]]
  /\ last' = [op |-> "assignRead", caller |-> c, key |-> key, value |-> value,
              prior |-> PriorWrite, promise |-> Resolve(Undefined),
              before |-> table, at |-> now]
  /\ UNCHANGED <<table, now, monitoring, txn, process, _globalInstance>>

\* assign from that yield on: the put of the merged value
AssignWrite(c) ==
  LET call == running[c]
      r == assignWrite(table, call.key, call.value, NoData, call.current)
  IN /\ call # Idle
     /\ table' = r.table
     /\ running' = [o \in Callers |->
                      IF o = c THEN Idle
                      ELSE IF running[o] = Idle THEN Idle
                      ELSE [running[o] EXCEPT !.overlapped = TRUE]]
     /\ last' = [op |-> "assignWrite", caller |-> c, key |-> call.key,
                 value |-> call.value, current |-> call.current,
                 overlapped |-> call.overlapped, prior |-> PriorWrite,
                 promise |-> r.promise, before |-> table, at |-> now]
     /\ UNCHANGED <<now, monitoring, txn, process, _globalInstance>>

RaceKeys == { <<"k">> }

NextRace ==
  \/ \E k \in RaceKeys, v \in {ObjC3, Str(<<"s">>)} : Put(k, v, NoData)
  \/ \E k \in RaceKeys : Delete(k)
  \/ \E c \in Callers, k \in RaceKeys, v \in {ObjA1, ObjB2} : AssignRead(c, k, v)
  \/ \E c \in Callers : AssignWrite(c)

SpecRace == Init /\ [][NextRace]_vars

(***************************************************************************)
(* Two callers of put, or of assign with a scalar, at once.  Either call   *)
(* is one upsert of the table, made some time after the call: the upserts  *)
(* of two calls under way reach the table in either order.                 *)
(***************************************************************************)
PriorUpsert ==
  IF last.op = "upsert" THEN [value |-> last.value, caller |-> last.caller]
  ELSE NoPrior

\* put(key, value) or assign(key, value) is called; value is a scalar
PutCalled(c, op, key, value) ==
  /\ running[c] = Idle
  /\ isString(value) \/ isNumber(value) \/ isBoolean(value)
  /\ running' = [running EXCEPT ![c] =
                   [pc |-> "upsert", op |-> op, key |-> key, value |-> value,
                    overlapped |-> FALSE]]
  /\ last' = [op |-> "called", caller |-> c, key |-> key, value |-> value,
              promise |-> Resolve(Undefined), before |-> table, at |-> now]
  /\ UNCHANGED <<table, now, monitoring, txn, process, _globalInstance>>

\* the table carries out the upsert of the call
PutUpsert(c) ==
  LET call == running[c]
      r == IF call.op = "put"
           THEN put(table, call.key, call.value, NoData)
           ELSE assign(table, now, call.key, call.value, NoData)
  IN /\ call # Idle
     /\ call.pc = "upsert"
     /\ table' = r.table
     /\ running' = [o \in Callers |->
                      IF o = c THEN Idle
                      ELSE IF running[o] = Idle THEN Idle
                      ELSE [running[o] EXCEPT !.overlapped = TRUE]]
     /\ last' = [op |-> "upsert", caller |-> c, method |-> call.op,
                 key |-> call.key, value |-> call.value,
                 overlapped |-> call.overlapped, prior |-> PriorUpsert,
                 promise |-> r.promise, before |-> table, at |-> now]
     /\ UNCHANGED <<now, monitoring, txn, process, _globalInstance>>

ScalarValues == {Str(<<"s">>), Num(1)}

NextPutRace ==
  \/ \E c \in Callers, op \in {"put", "assign"}, k \in RaceKeys, v \in ScalarValues :
       PutCalled(c, op, k, v)
  \/ \E c \in Callers : PutUpsert(c)
  \/ \E k \in RaceKeys, t \in WholeSeconds : Expire(k, t)
  \/ \E k \in RaceKeys : Delete(k)
  \/ Tick

SpecPutRace == Init /\ [][NextPutRace]_vars

(***************************************************************************)
(* Asking for the table name: of a store, of a view of any depth, of the   *)
(* facade.  The record names whom was asked and what came of it.           *)
(***************************************************************************)
TableName(op, view, outcome) ==
  /\ last' = [op |-> op, view |-> view, outcome |-> outcome,
              promise |-> Resolve(Undefined), before |-> table, at |-> now]
  /\ UNCHANGED <<table, now, monitoring, inflight>>

NextName ==
  \/ \E k \in PrefixKeys, v \in PrefixValues : Put(k, v, NoData)
  \/ \E k \in PrefixKeys, t \in WholeSeconds : Expire(k, t)
  \/ Tick
  \/ \E self \in Stores :
       TableName("tableName", prefix(self, Str(<< >>)), Returns(tableName(self)))
  \/ \E w \in Views : TableName("view.tableName", w, Prefix_tableName(w))
  \/ TableName("facade.tableName", prefix(_globalInstance, Str(<< >>)),
               Facade_tableName(_globalInstance))

SpecName == Init /\ [][NextName]_vars

(***************************************************************************)
(* The readers of the store and of the views, and prefix, beside the       *)
(* writers, the facade's task and its ticks.                               *)
(***************************************************************************)
\* prefix(newPrefix) of the store (view is NoView) or of a view
PrefixOf(view, newPrefix) ==
  ViewRead("prefix", view, newPrefix.s, Undefined,
           Returns(IF view = NoView THEN prefix(view._master, newPrefix)
                   ELSE Prefix_prefix(view, newPrefix)))

NextReads ==
  \/ \E k \in PrefixKeys, v \in PrefixValues : Put(k, v, NoData)
  \/ \E k \in PrefixKeys, t \in WholeSeconds : Expire(k, t)
  \/ Tick
  \/ Monitor(_globalInstance)
  \/ \E t \in 1..MaxTasks : CronTick(t)
  \/ \E k \in PrefixKeys : Get(k)
  \/ \E k \in PrefixKeys, d \in Defaults : GetOrDefault(k, d)
  \/ \E k \in PrefixKeys : GetOrNull(k)
  \/ \E k \in PrefixKeys : Has(k)
  \/ Count(Undefined, NoWhere)
  \/ All(Undefined, Undefined, Undefined, NoWhere)
  \/ \E w \in Views, k \in ViewKeys : ViewGet(w, k)
  \/ \E w \in Views, k \in ViewKeys, d \in Defaults : ViewGetOrDefault(w, k, d)
  \/ \E w \in Views, k \in ViewKeys : ViewGetOrNull(w, k)
  \/ \E w \in Views, k \in ViewKeys : ViewHas(w, k)
  \/ \E w \in Views : ViewCount(w, Undefined, NoWhere)
  \/ \E w \in Views : ViewAll(w, Undefined, Undefined, Undefined, NoWhere)
  \/ \E w \in {NoView, ViewP} : PrefixOf(w, Str(<<"q">>))

SpecReads == Init /\ [][NextReads]_vars

(***************************************************************************)
(* The writers of the store and of the view p, with and without extra      *)
(* columns that name the key column.                                       *)
(***************************************************************************)
FrameData == {NoData, [key |-> <<"q">>]}

NextFrame ==
  \/ \E k \in PrefixKeys, v \in PrefixValues, data \in FrameData : Put(k, v, data)
  \/ \E k \in PrefixKeys, v \in PrefixValues, data \in FrameData : Assign(k, v, data)
  \/ \E k \in PrefixKeys, t \in WholeSeconds : Expire(k, t)
  \/ \E k \in PrefixKeys : Delete(k)
  \/ Gc
  \/ Clear
  \/ Tick
  \/ \E k \in ViewKeys, v \in PrefixValues, data \in FrameData : ViewPut(ViewP, k, v, data)
  \/ \E k \in ViewKeys, v \in PrefixValues, data \in FrameData :
       ViewAssign(ViewP, k, v, data)
  \/ \E k \in ViewKeys, t \in WholeSeconds : ViewExpire(ViewP, k, t)
  \/ \E k \in ViewKeys : ViewDelete(ViewP, k)
  \/ ViewGc(ViewP)
  \/ ViewClear(ViewP)

SpecFrame == Init /\ [][NextFrame]_vars

(***************************************************************************)
(* init(sequelize) called again.  The store it makes is one that no call   *)
(* has been made on; the store it replaces has no reference left but the   *)
(* weak one of its task, and may be reclaimed from then on.  The schedule  *)
(* of every started task keeps coming round.                               *)
(***************************************************************************)
FacadeInit(fresh) ==
  /\ fresh \notin collected
  /\ fresh # _globalInstance
  /\ _task[fresh] = NoTask
  /\ LET r == init(tasks, _task, _globalInstance, fresh)
     IN /\ _globalInstance' = r._globalInstance
        /\ tasks' = r.tasks
        /\ _task' = r._task
  /\ last' = [op |-> "facade.init", store |-> fresh, replaced |-> _globalInstance,
              task |-> NoTask, before |-> table, at |-> now, tasks |-> tasks,
              _task |-> _task, collected |-> collected,
              counter |-> __destroyCounter]
  /\ UNCHANGED <<table, now, collected, __destroyCounter, txn, running, process>>

\* the stores that init has replaced: the first, once init was called again
Replaced == {1} \ {_globalInstance}

NextInit ==
  \/ \E k \in MonitorKeys, v \in ListValues : Put(k, v, NoData)
  \/ \E k \in MonitorKeys, t \in WholeSeconds : Expire(k, t)
  \/ Tick
  \/ FacadeMonitor
  \/ \E fresh \in Stores : FacadeInit(fresh)
  \/ \E t \in 1..MaxTasks : CronTick(t)
  \/ \E self \in Replaced : Collect(self)

SpecInit ==
  Init /\ [][NextInit]_vars /\ \A t \in 1..MaxTasks : WF_vars(CronTick(t))

(***************************************************************************)
(* What the claims speak of.                                               *)
(***************************************************************************)
\* every instant a row of the model can be read at or expire at
Dates == 0..(MaxTime + MaxSeconds + 1)

RowsOf(tbl, key) == {r \in tbl : r.key = key}
IsLive(r, date) == r.expires = NULL \/ \E e \in r.expires : e > date
IsExpired(r, date) == \E e \in r.expires : e <= date
LiveRows(tbl, date, key) == {r \in RowsOf(tbl, key) : IsLive(r, date)}
ExpiredRows(tbl, date, key) == {r \in RowsOf(tbl, key) : IsExpired(r, date)}
TheRow(rows) == CHOOSE r \in rows : TRUE

Resolved == last.promise.state = "resolved"
Rejected == last.promise.state = "rejected"
True == Resolve(Bool(TRUE))
False == Resolve(Bool(FALSE))

\* C1: a read of a key that has no row, or whose row has expired (swept or
\* not), misses: get rejects with 'key not found: k', getOrNull answers null,
\* getOrDefault its default and has false.
C1_ReadsMissAbsentOrExpired ==
  (last.op \in {"get", "getOrNull", "getOrDefault", "has"}
     /\ LiveRows(last.before, last.at, last.key) = {})
  => /\ last.op = "get" => last.promise = Reject(KeyNotFound(last.key))
     /\ last.op = "getOrNull" => last.promise = Resolve(Null)
     /\ last.op = "getOrDefault" => last.promise = Resolve(last.value)
     /\ last.op = "has" => last.promise = False

C1_Witness ==
  /\ last.op = "get"
  /\ ExpiredRows(last.before, last.at, last.key) # {}
  /\ last.promise = Reject(KeyNotFound(last.key))

\* C3 as claimed: after put(k, v, extraColumns), whatever extraColumns is, the
\* row of k has expires = null.
C3_PutClearsExpiresAnyData ==
  last.op = "put"
  => \E r \in RowsOf(table, last.key) : r.expires = NULL

\* C3 as amended: after put(k, v, extraColumns) with extraColumns naming
\* neither the key nor the expires column, k has exactly one row, its expires
\* is null, and has(k) is true at every later instant.
C3_PutClearsExpires ==
  (last.op = "put" /\ DOMAIN last.data \cap {"key", "expires"} = {})
  => /\ Cardinality(RowsOf(table, last.key)) = 1
     /\ \A r \in RowsOf(table, last.key) : r.expires = NULL
     /\ \A d \in Dates : has(table, d, last.key) = True

C3_Witness ==
  /\ last.op = "put"
  /\ last.data = [note |-> Num(1)]
  /\ ExpiredRows(last.before, last.at, last.key) # {}
  /\ \A r \in RowsOf(table, last.key) : r.expires = NULL

\* what C4 says of the reads at instant d after expire(k, t) succeeded at T
ExpireWindowAt(d) ==
  /\ (last.at <= d /\ d < last.at + last.time)
       => /\ get(table, d, last.key) = get(last.before, last.at, last.key)
          /\ get(table, d, last.key).state = "resolved"
  /\ d >= last.at + last.time
       => /\ get(table, d, last.key) = Reject(KeyNotFound(last.key))
          /\ has(table, d, last.key) = False
  /\ \A k \in {r.key : r \in last.before} \ {last.key} :
       get(table, d, k) = get(last.before, d, k)

\* C4: after expire(k, t) succeeds at time T, get(k) answers the stored value
\* at every instant before T + t and rejects with KeyNotFound from T + t on,
\* where has(k) is false, gc or not; the other keys read as before.
C4_ExpireWindow ==
  (last.op = "expire" /\ Resolved) => \A d \in Dates : ExpireWindowAt(d)

\* C4 where the code meets it: t is a whole number of seconds
C4_ExpireWindowWholeSeconds ==
  (last.op = "expire" /\ Resolved /\ last.time % 2 = 0)
  => \A d \in Dates : ExpireWindowAt(d)

C4_WitnessWholeSeconds ==
  /\ last.op = "expire" /\ Resolved
  /\ last.time = 2
  /\ now >= last.at + last.time
  /\ RowsOf(table, last.key) # {}
  /\ \E r \in table : r.key # last.key /\ IsLive(r, now)

\* C5 as claimed: expire on a live row that expires at e leaves it expiring
\* no later than e.
C5_ExpireNeverExtends ==
  (last.op = "expire" /\ Resolved)
  => \A old \in LiveRows(last.before, last.at, last.key) :
       \A e \in old.expires :
         \A r \in RowsOf(table, last.key) : \A e2 \in r.expires : e2 <= e

\* C5 as amended: expire(k, t) at time T on a live row sets its expires to
\* T + t in whole seconds (a fraction of a second in t is dropped) whatever
\* it was before, later than the previous e when that date is later than e.
C5_ExpireSetsDate ==
  (last.op = "expire" /\ Resolved)
  => /\ LiveRows(last.before, last.at, last.key) # {}
     /\ RowsOf(table, last.key) # {}
     /\ \A r \in RowsOf(table, last.key) :
          r.expires = Date(last.at + 2 * (last.time \div 2))

C5_Witness ==
  /\ last.op = "expire" /\ Resolved
  /\ \E old \in LiveRows(last.before, last.at, last.key) :
       \E e \in old.expires : e < last.at + last.time
  /\ \A r \in RowsOf(table, last.key) : r.expires = Date(last.at + last.time)

\* C6: expire on a key with no row, or with an expired row not yet swept,
\* rejects with 'key not found: k' and changes no row.
C6_ExpireMissing ==
  (last.op = "expire" /\ LiveRows(last.before, last.at, last.key) = {})
  => /\ last.promise = Reject(KeyNotFound(last.key))
     /\ table = last.before

C6_Witness ==
  /\ last.op = "expire"
  /\ ExpiredRows(last.before, last.at, last.key) # {}
  /\ Rejected

\* C7: gc removes exactly the rows whose expires is non-null and <= now; the
\* rows with expires null or > now stay as they are, and the table shrinks by
\* the number of expired rows.
C7_GcRemovesExactlyExpired ==
  last.op = "gc"
  => /\ table = {r \in last.before : r.expires = NULL \/ \E e \in r.expires : e > last.at}
     /\ Cardinality(last.before) - Cardinality(table)
          = Cardinality({r \in last.before : IsExpired(r, last.at)})

C7_Witness ==
  /\ last.op = "gc"
  /\ \E r \in last.before : r.expires = Date(last.at)
  /\ \E r \in last.before : \E e \in r.expires : e > last.at
  /\ Cardinality(table) = 1

\* C8: delete(k) answers true and removes the row iff k has a live row; then
\* has(k) is false and a second delete(k) answers false; on an expired row
\* not yet swept and on an absent key it answers false and changes nothing.
C8_Delete ==
  last.op = "delete"
  => IF LiveRows(last.before, last.at, last.key) # {}
     THEN /\ last.promise = True
          /\ table = last.before \ RowsOf(last.before, last.key)
          /\ has(table, last.at, last.key) = False
          /\ delete(table, last.at, last.key) = [table |-> table, promise |-> False]
     ELSE /\ last.promise = False
          /\ table = last.before

C8_Witness ==
  /\ last.op = "delete"
  /\ ExpiredRows(last.before, last.at, last.key) # {}
  /\ last.promise = False
  /\ table = last.before

C8_WitnessLive ==
  /\ last.op = "delete"
  /\ last.promise = True
  /\ Cardinality(table) = 1

\* the value a key reads as at an instant (of a key that has a live row)
ValueAt(tbl, date, key) == get(tbl, date, key).value

IsScalar(v) == v.t \in {"string", "number", "boolean", "null", "undefined"}
IsJson(v) == v.t # "undefined"

\* C2: put(k, v) of a JSON value v, then get(k) with no write in between,
\* answers a value equal to v, whatever k held before (a later put
\* overwrites).
C2_PutGetRoundTrip ==
  (last.op = "put" /\ last.data = NoData /\ IsJson(last.value))
  => \A d \in Dates : get(table, d, last.key) = Resolve(last.value)

C2_Witness ==
  /\ last.op = "put" /\ last.data = NoData
  /\ last.value = Str(<<"a", "\"">>)
  /\ LiveRows(last.before, last.at, last.key) # {}
  /\ ValueAt(last.before, last.at, last.key) = ObjAB
  /\ get(table, now, last.key) = Resolve(last.value)

\* C9: assign overwrites when (a) the incoming value is a string, number,
\* boolean, null or undefined, (b) it is an object and the key has no live
\* row, (c) it is an object and the live value is a string, number, boolean,
\* null or undefined: get(k) then answers exactly the incoming value.
C9_AssignOverwrites ==
  (last.op = "assign" /\ last.data = NoData
     /\ \/ IsScalar(last.value)
        \/ LiveRows(last.before, last.at, last.key) = {}
        \/ IsScalar(ValueAt(last.before, last.at, last.key)))
  => \A d \in Dates : get(table, d, last.key) = Resolve(last.value)

\* case (b): an object assigned over an object's row that has expired and
\* is not swept
C9_Witness ==
  /\ last.op = "assign" /\ last.data = NoData
  /\ last.value = ObjB2
  /\ ExpiredRows(last.before, last.at, last.key) # {}
  /\ parseValue(TheRow(RowsOf(last.before, last.key)).value) = ObjA1
  /\ get(table, now, last.key) = Resolve(ObjB2)

\* case (a): null assigned over a live object
C9_WitnessScalar ==
  /\ last.op = "assign" /\ last.data = NoData
  /\ last.value = Null
  /\ LiveRows(last.before, last.at, last.key) # {}
  /\ ValueAt(last.before, last.at, last.key) = ObjA1
  /\ get(table, now, last.key) = Resolve(Null)

\* case (c): an object assigned over a live number
C9_WitnessOverScalar ==
  /\ last.op = "assign" /\ last.data = NoData
  /\ last.value = ObjB2
  /\ LiveRows(last.before, last.at, last.key) # {}
  /\ ValueAt(last.before, last.at, last.key) = Num(12)
  /\ get(table, now, last.key) = Resolve(ObjB2)

\* the case of C10: an object assigned to a key whose live value is an object
\* (an array is no object here: onto a live array, assign sets elements only)
MergeCase ==
  /\ last.op = "assign" /\ last.data = NoData
  /\ ~IsScalar(last.value)
  /\ LiveRows(last.before, last.at, last.key) # {}
  /\ ValueAt(last.before, last.at, last.key).t = "object"

\* stored is the top-level merge of incoming into existing
IsShallowMerge(stored, existing, incoming) ==
  LET new == OwnProperties(stored)
      old == OwnProperties(existing)
      inc == OwnProperties(incoming)
  IN /\ stored.t = "object"
     /\ DOMAIN new = DOMAIN old \cup DOMAIN inc
     /\ \A n \in DOMAIN inc : new[n] = inc[n]
     /\ \A n \in DOMAIN old \ DOMAIN inc : new[n] = old[n]

\* C10: assign of an object to a key whose live value is an object stores
\* the top-level merge: every field of the incoming object with the incoming
\* value (a nested object replaced whole), every other field as it was.
C10_AssignShallowMerge ==
  MergeCase
  => /\ get(table, last.at, last.key).state = "resolved"
     /\ IsShallowMerge(ValueAt(table, last.at, last.key),
                       ValueAt(last.before, last.at, last.key), last.value)

\* {a: {b: 2}} assigned to {a: {a: 1}, b: 2} leaves {a: {b: 2}, b: 2}
C10_Witness ==
  /\ MergeCase
  /\ last.value = ObjAB
  /\ ValueAt(last.before, last.at, last.key)
       = Obj([n \in { <<"a">>, <<"b">> } |-> IF n = <<"a">> THEN ObjA1 ELSE Num(2)])
  /\ ValueAt(table, last.at, last.key)
       = Obj([n \in { <<"a">>, <<"b">> } |-> IF n = <<"a">> THEN ObjB2 ELSE Num(2)])
(***************************************************************************)
(* Prefix views.                                                           *)
(***************************************************************************)
StartsWith(text, p) == Len(text) >= Len(p) /\ SubSeq(text, 1, Len(p)) = p
Outside(tbl, p) == {r \in tbl : ~StartsWith(r.key, p)}

\* C11: after p.put(k, v) on the view p = store.prefix(P), store.get(P + k),
\* p.get(k), p.getOrNull(k) and p.getOrDefault(k, d) answer v and p.has(k)
\* true; store.has(k) and store.getOrNull(k) still report absence when k had
\* no live row, and the rows whose key does not start with P are as before.
C11_PrefixIsolation ==
  last.op = "view.put"
  => LET p == last.view
         k == last.key
         v == Resolve(last.value)
     IN /\ get(table, now, p._prefix \o k) = v
        /\ Prefix_get(p, table, now, Str(k)) = v
        /\ Prefix_getOrNull(p, table, now, Str(k)) = v
        /\ \A d \in Defaults : Prefix_getOrDefault(p, table, now, Str(k), d) = v
        /\ Prefix_has(p, table, now, Str(k)) = True
        /\ LiveRows(last.before, last.at, k) = {}
             => /\ has(table, now, k) = False
                /\ getOrNull(table, now, k) = Resolve(Null)
        /\ Outside(table, p._prefix) = Outside(last.before, p._prefix)

\* a put through the view p while the store holds an expired row of the
\* unprefixed key, read again after the clock has advanced
C11_Witness ==
  /\ last.op = "view.put"
  /\ last.view = ViewP
  /\ ExpiredRows(table, last.at, last.key) # {}
  /\ RowsOf(last.before, <<"p">> \o last.key) = {}
  /\ now > last.at

HasWildcard(text) == \E i \in DOMAIN text : text[i] \in {"?", "*", "_", "%"}

\* the live rows of a table whose key literally starts with a prefix
LiveUnder(tbl, date, p) == {r \in tbl : IsLive(r, date) /\ StartsWith(r.key, p)}

\* the record a view with prefix p answers for a row of the store
Stripped(r, p) ==
  [key |-> SubSeq(r.key, Len(p) + 1, Len(r.key)), value |-> parseValue(r.value),
   expires |-> r.expires]

Records(rows) == {rows[i] : i \in DOMAIN rows}

\* C12: with no pattern and no extra filter, view.count() is the number of
\* live rows whose key literally starts with the view's prefix, whatever
\* characters the prefix holds, and view.all() answers exactly those rows.
C12_ViewListsItsPrefixOnly ==
  /\ (last.op = "view.count" /\ last.pattern = Undefined)
       => last.promise =
            Resolve(Num(Cardinality(LiveUnder(last.before, last.at, last.view._prefix))))
  /\ (last.op = "view.all" /\ last.pattern = Undefined)
       => /\ Len(last.promise.value) =
               Cardinality(LiveUnder(last.before, last.at, last.view._prefix))
          /\ Records(last.promise.value) =
               {Stripped(r, last.view._prefix) :
                  r \in LiveUnder(last.before, last.at, last.view._prefix)}

\* the same of the views whose prefix holds none of ? * _ %
C12_LiteralPrefix ==
  (last.op \in {"view.count", "view.all"} /\ ~HasWildcard(last.view._prefix))
  => C12_ViewListsItsPrefixOnly

C12_WitnessLiteralPrefix ==
  /\ last.op = "view.all"
  /\ last.pattern = Undefined
  /\ last.view = ViewKey
  /\ Len(last.promise.value) = 2
  /\ \E r \in last.before : r.key = Qqq1 /\ IsLive(r, last.at)
  /\ \E r \in last.before : r.key = Key1 /\ \E e \in r.expires : e > last.at

\* C13: every record that view.all(..) answers carries the stored key less
\* the view's prefix: prefix + key is the key of a live row, view.get(key)
\* answers the record's value, and the value is the row's.
C13_ViewAllStripsPrefix ==
  last.op = "view.all"
  => \A rec \in Records(last.promise.value) :
       /\ \E r \in last.before :
            /\ IsLive(r, last.at)
            /\ r.key = last.view._prefix \o rec.key
            /\ rec.value = parseValue(r.value)
       /\ Prefix_get(last.view, last.before, last.at, Str(rec.key)) = Resolve(rec.value)

\* the same of the views whose prefix holds none of ? * _ %
C13_LiteralPrefix ==
  (last.op = "view.all" /\ ~HasWildcard(last.view._prefix))
  => C13_ViewAllStripsPrefix

C13_WitnessLiteralPrefix ==
  /\ last.op = "view.all"
  /\ last.view = ViewKey
  /\ last.pattern # Undefined
  /\ \E rec \in Records(last.promise.value) : rec.key = <<"2">>

Lists(promises, key, value) ==
  \A promise \in promises :
    \E rec \in Records(promise.value) : rec.key = key /\ rec.value = value

\* C14: q = store.prefix(P1).prefix(P2) is the view store.prefix(P1 + P2):
\* after q.put(k, v) the row is stored under P1 + P2 + k,
\* store.prefix(P1).get(P2 + k) and store.get(P1 + P2 + k) answer v, q.all()
\* lists the row with key k and store.prefix(P1).all() with key P2 + k.
C14_PrefixComposition ==
  \A P1, P2 \in Prefixes :
    LET p == prefix(_globalInstance, Str(P1))
        q == Prefix_prefix(p, Str(P2))
        k == last.key
        v == last.value
    IN (last.op = "view.put" /\ last.view = q)
       => /\ q = prefix(_globalInstance, Str(P1 \o P2))
          /\ \E r \in table : r.key = P1 \o P2 \o k /\ parseValue(r.value) = v
          /\ Cardinality(table) <= Cardinality(last.before) + 1
          /\ Prefix_get(p, table, now, Str(P2 \o k)) = Resolve(v)
          /\ get(table, now, P1 \o P2 \o k) = Resolve(v)
          /\ Lists(Prefix_all(q, table, now, Undefined, Undefined, Undefined, NoWhere), k, v)
          /\ Lists(Prefix_all(p, table, now, Undefined, Undefined, Undefined, NoWhere),
                   P2 \o k, v)

\* a put through the view of the view while the first view holds a row of
\* its own, read again after the clock has advanced
C14_Witness ==
  /\ last.op = "view.put"
  /\ last.view = ViewPQ
  /\ last.view # ViewP
  /\ now > last.at
  /\ \E r \in last.before : r.key = <<"p", "k">> /\ IsLive(r, now) /\ r.expires # NULL
  /\ RowsOf(last.before, <<"p", "q", "k">>) = {}

\* C15: view.expire(k, t) goes to the store with the key as given: it sets
\* the expiration of the store's live row k, rejecting with 'key not found: k'
\* when there is none, and leaves the row P + k as it was.
C15_ViewExpireUnprefixed ==
  last.op = "view.expire"
  => LET k == last.key
         pk == last.view._prefix \o k
     IN /\ RowsOf(table, pk) = RowsOf(last.before, pk)
        /\ {r \in table : r.key # k} = {r \in last.before : r.key # k}
        /\ IF LiveRows(last.before, last.at, k) = {}
           THEN last.promise = Reject(KeyNotFound(k)) /\ table = last.before
           ELSE /\ Resolved
                /\ \E r \in RowsOf(table, k) :
                     r.expires = Date(last.at + 2 * (last.time \div 2))

\* the view's expire of k while both k and P + k are live without an
\* expiration: k is expired at once, P + k is still read
C15_Witness ==
  /\ last.op = "view.expire"
  /\ last.view = ViewP
  /\ last.time = 0
  /\ Resolved
  /\ \E r \in last.before : r.key = <<"p", "k">> /\ r.expires = NULL
  /\ Prefix_has(ViewP, table, now, Str(last.key)) = True
  /\ has(table, now, last.key) = False

\* the view's expire of a key it has put, while the store has no row k
C15_WitnessMissing ==
  /\ last.op = "view.expire"
  /\ Rejected
  /\ Prefix_has(last.view, last.before, last.at, Str(last.key)) = True

(***************************************************************************)
(* Clearing, counting and listing.                                         *)
(***************************************************************************)
\* C16: clear() removes every row, live or expired: afterwards no row is
\* stored and count(pattern) is 0 for every pattern; called on a view it
\* clears the whole store, the rows outside the view's prefix too.
C16_ClearRemovesAll ==
  last.op \in {"clear", "view.clear"}
  => /\ Resolved
     /\ table = {}
     /\ \A pattern \in Patterns : count(table, now, pattern, NoWhere) = Resolve(Num(0))
     /\ \A w \in ListViews, pattern \in ViewPatterns :
          Prefix_count(w, table, now, pattern, NoWhere) = Resolve(Num(0))

\* a clear through a view while the store holds a live row outside the
\* view's prefix, a live row under it and an expired row
C16_Witness ==
  /\ last.op = "view.clear"
  /\ last.view = ViewKey
  /\ \E r \in last.before : r.key = Qqq1 /\ IsLive(r, last.at)
  /\ \E r \in last.before : r.key = Key1 /\ IsLive(r, last.at)
  /\ \E r \in last.before : r.key = Key2 /\ IsExpired(r, last.at)

\* wildcard matching read from the end of the text: a character of one
\* stands for exactly one character, a character of many for any run of
\* characters, every other character for itself
RECURSIVE WildcardMatch(_, _, _, _)
WildcardMatch(text, pattern, one, many) ==
  IF pattern = << >> THEN text = << >>
  ELSE LET c == pattern[Len(pattern)]
           rest == SubSeq(pattern, 1, Len(pattern) - 1)
       IN IF c \in many
          THEN \E n \in 0..Len(text) : WildcardMatch(SubSeq(text, 1, n), rest, one, many)
          ELSE /\ text # << >>
               /\ (c \in one \/ c = text[Len(text)])
               /\ WildcardMatch(SubSeq(text, 1, Len(text) - 1), rest, one, many)

\* the number of live rows that a call of count found matching its pattern
Counted(one, many) ==
  Cardinality({r \in last.before :
                 /\ IsLive(r, last.at)
                 /\ last.pattern # Undefined
                      => WildcardMatch(r.key, last.pattern.s, one, many)})

\* C17 as claimed: count(pattern) is the number of live rows whose key
\* matches the pattern, ? standing for one character, * for any run of
\* characters and every other character for itself; count() is the number
\* of live rows.
C17_CountWildcards ==
  last.op = "count" => last.promise = Resolve(Num(Counted({"?"}, {"*"})))

\* C17 as amended: count(pattern) is the number of live rows whose key
\* matches the pattern, ? and _ standing for one character, * and % for any
\* run of characters and every other character for itself; count() is the
\* number of live rows.
C17_CountWildcardsOfTheTable ==
  last.op = "count" => last.promise = Resolve(Num(Counted({"?", "_"}, {"*", "%"})))

\* with key-1, key-2 and qqq-1 live, count('key-*') is 2
C17_Witness ==
  /\ last.op = "count"
  /\ last.pattern = Str(<<"k", "e", "y", "-", "*">>)
  /\ \A k \in ListKeys : \E r \in last.before : r.key = k /\ IsLive(r, last.at)
  /\ last.promise = Resolve(Num(2))

\* .. count('qqq-*') is 1, count('~~~~') is 0 and count() is 3
C17_WitnessOthers ==
  /\ \A k \in ListKeys : \E r \in table : r.key = k /\ IsLive(r, now)
  /\ count(table, now, Str(<<"q", "q", "q", "-", "*">>), NoWhere) = Resolve(Num(1))
  /\ count(table, now, Str(<<"~", "~", "~", "~">>), NoWhere) = Resolve(Num(0))
  /\ count(table, now, Undefined, NoWhere) = Resolve(Num(3))
  /\ last.op = "count"
  /\ last.pattern = Str(<<"?", "?", "?", "-", "1">>)
  /\ last.promise = Resolve(Num(2))

\* the rows of a table that are live at an instant, as a caller reads them
LiveInstances(tbl, date) == {Instance(r) : r \in {x \in tbl : IsLive(x, date)}}

\* all(0, a) and then all(a, N - a) were called, N being the number of live
\* rows, with no change of the table or of the live rows between them
TwoPages ==
  /\ last.op = "all"
  /\ last.prior # NoPrior
  /\ last.pattern = Undefined /\ last.prior.pattern = Undefined
  /\ last.prior.before = last.before
  /\ LiveInstances(last.prior.before, last.prior.at) = LiveInstances(last.before, last.at)
  /\ last.prior.start = Num(0)
  /\ last.start = last.prior.length
  /\ last.start.n + last.length.n = Cardinality(LiveInstances(last.before, last.at))

\* C18: all(0, a) followed by all(a, N - a), with no change between them,
\* together hold every live row exactly once, whatever order the table
\* answers in.
C18_Pagination ==
  TwoPages
  => LET rows == last.prior.promise.value \o last.promise.value
     IN /\ Len(rows) = Cardinality(LiveInstances(last.before, last.at))
        /\ Records(rows) = LiveInstances(last.before, last.at)

\* each page by itself holds live rows only, none of them twice, and as
\* many as were asked for when there are that many
C18_EachPage ==
  last.op = "all"
  => LET rows == last.promise.value
         matching == Cardinality({r \in last.before :
                                    Matches(r, ListWhere(last.at, last.pattern, last.where))})
         from == IF isOptional(last.start) THEN 0 ELSE last.start.n
         left == IF matching > from THEN matching - from ELSE 0
     IN /\ Records(rows) \subseteq LiveInstances(last.before, last.at)
        /\ Cardinality(Records(rows)) = Len(rows)
        /\ Len(rows) = IF isOptional(last.length) \/ left < last.length.n
                       THEN left ELSE last.length.n

C18_WitnessEachPage ==
  /\ TwoPages
  /\ Len(last.prior.promise.value) = 1
  /\ Len(last.promise.value) = 1
  /\ last.prior.promise.value # last.promise.value

(***************************************************************************)
(* Garbage collection on a schedule.                                       *)
(***************************************************************************)
Started(tsks, self) ==
  {t \in DOMAIN tsks : tsks[t].ref = self /\ tsks[t].state = "started"}

MonitorOps == {"monitor", "facade.monitor", "view.monitor"}

\* C19: whatever calls of monitor were made on a store, itself, through the
\* facade or through a view, the store has at most one started task: a call
\* destroys the task that was installed and installs a started one, and a
\* task that ticks is always the one its store has installed, never a
\* destroyed one.
C19_AtMostOneTask ==
  /\ \A self \in Stores : Cardinality(Started(tasks, self)) <= 1
  /\ last.op \in MonitorOps
       => /\ Started(tasks, last.store) = {last.task}
          /\ _task[last.store] = last.task
          /\ last.task \notin DOMAIN last.tasks
          /\ \A t \in Started(last.tasks, last.store) :
               t = last._task[last.store] /\ tasks[t].state = "destroyed"
          /\ \A t \in DOMAIN last.tasks :
               tasks[t].ref # last.store => tasks[t] = last.tasks[t]
  /\ last.op = "cron"
       => /\ last.tasks[last.task].state = "started"
          /\ last._task[last.store] = last.task

\* a call of monitor through a view of a store that has a started task,
\* installed by a call on the store itself
C19_Witness ==
  /\ last.op = "view.monitor"
  /\ last.store # _globalInstance
  /\ Started(last.tasks, last.store) # {}
  /\ Started(last.tasks, _globalInstance) # {}
  /\ Len(tasks) = MaxTasks

\* C20: a store with a started task can be reclaimed; the tick that finds
\* its store reclaimed destroys the task, sweeps nothing and adds exactly 1
\* to the destroy counter; a tick whose store is alive sweeps and leaves the
\* counter, which thus never exceeds the number of reclaimed stores.
C20_LeakSafety ==
  /\ __destroyCounter <= Cardinality(collected)
  /\ (last.op = "cron" /\ last.store \in last.collected)
       => /\ tasks[last.task].state = "destroyed"
          /\ Started(tasks, last.store) = {}
          /\ table = last.before
          /\ __destroyCounter = last.counter + 1
  /\ (last.op = "cron" /\ last.store \notin last.collected)
       => /\ __destroyCounter = last.counter
          /\ tasks = last.tasks
          /\ table = {r \in last.before : ~IsExpired(r, last.at)}
  /\ last.op \in MonitorOps \cup {"collect"} => __destroyCounter = last.counter
  /\ last.op = "collect" => tasks = last.tasks

\* the tick of the task of a reclaimed store, while the table holds an
\* expired row and the other store is alive with a started task
C20_Witness ==
  /\ last.op = "cron"
  /\ last.store \in last.collected
  /\ \E r \in last.before : IsExpired(r, last.at)
  /\ \E self \in Stores \ collected : Started(tasks, self) # {}
  /\ __destroyCounter = 1

\* a store is reclaimed while its task is started
C20_WitnessCollect ==
  /\ last.op = "collect"
  /\ Started(tasks, last.store) # {}

\* a tick of an alive store's task sweeps an expired row
C20_WitnessSweep ==
  /\ last.op = "cron"
  /\ last.store \notin last.collected
  /\ table # last.before

\* the row of a key is stored and its expiration has passed
Unswept(key) == ExpiredRows(table, now, key) # {}

ActiveOnLive == \E self \in Stores \ collected : Started(tasks, self) # {}

\* a tick removes the rows whose expiration has passed and no other, and
\* the rows it leaves are read as before
SweepKeepsLive ==
  last.op = "cron"
  => /\ table = {r \in last.before : ~IsExpired(r, last.at)}
     /\ \A r \in last.before :
          IsLive(r, now) => get(table, now, r.key) = Resolve(parseValue(r.value))

\* C21: while a store that is alive has a started task, every row whose
\* expiration has passed is in the end removed from the table, no caller
\* calling gc; the rows that are live or have no expiration stay stored and
\* readable.
C21_EventuallySwept ==
  /\ \A k \in Keys : (Unswept(k) /\ ActiveOnLive) ~> ~Unswept(k)
  /\ []SweepKeepsLive

\* a tick has removed an expired row and left a live row with an
\* expiration and a row without one
C21_Witness ==
  /\ last.op = "cron"
  /\ \E r \in last.before : IsExpired(r, last.at) /\ r \notin table
  /\ \E r \in table : r.expires # NULL /\ IsLive(r, now)

(***************************************************************************)
(* Transactions.                                                           *)
(***************************************************************************)
StoredKeys == TxnKeys \cup {_convertKey(ViewP, Str(k)) : k \in TxnKeys}

IsTxnCall == "given" \in DOMAIN last

\* a call of the store, of a view, or of the facade other than its put, that
\* was given the handle of the open transaction has worked on the
\* transaction's table and left the table itself as it was
C22_StoreAndViewJoin ==
  (/\ IsTxnCall
   /\ last.op \in RolledBackOps
   /\ ~isOptional(last.given)
   /\ ~(last.surface = "facade" /\ last.op = "put"))
  => last.joined /\ table = last.before

\* C22: after a transaction was aborted, every key that was written, while
\* it was open, only by put, assign, expire, delete and clear given its
\* handle has the rows it had when the transaction began; when nothing else
\* wrote, getOrDefault(k, d) and count() answer as on the table of then
C22_RollbackUnobservable ==
  last.op = "rollback"
  => /\ \A k \in StoredKeys :
          k \notin last.outside => RowsOf(table, k) = RowsOf(last.begin, k)
     /\ last.outside = {}
        => /\ \A k \in StoredKeys, d \in Defaults :
                getOrDefault(table, now, k, d) = getOrDefault(last.begin, now, k, d)
           /\ count(table, now, Undefined, NoWhere)
                = count(last.begin, now, Undefined, NoWhere)

\* C23: a call that was given a transaction handle makes its table call
\* under that handle, and the handle is no part of the data written
C23_HandlePassedThrough ==
  (IsTxnCall /\ ~isOptional(last.given))
  => /\ last.under = last.given
     /\ "id" \notin DOMAIN last.data

\* the calls that do pass the handle on: all of the store's, and all of a
\* view's and of the facade's but gc and the facade's put
C23_PassedButGcAndFacadePut ==
  (/\ IsTxnCall
   /\ ~isOptional(last.given)
   /\ last.op # "gc" \/ last.surface = "store"
   /\ ~(last.surface = "facade" /\ last.op = "put"))
  => /\ last.under = last.given
     /\ "id" \notin DOMAIN last.data
     /\ last.joined

(***************************************************************************)
(* Two calls of assign at once.                                            *)
(***************************************************************************)
StoredValue(key) == parseValue(TheRow(RowsOf(table, key)).value)
Fields(v) == DOMAIN OwnProperties(v)

\* C24: an assign that writes after another assign's write: when it had
\* read the row before that write (both reads precede both writes), the
\* object it stores lacks every field of the other call that neither the
\* row it read nor its own value has; when it read the row after that
\* write, the object it stores has the fields of both calls
C24_AssignRace ==
  (/\ last.op = "assignWrite"
   /\ last.prior # NoPrior
   /\ last.current.found
   /\ last.current.value.t = "object")
  => LET stored == StoredValue(last.key)
     IN IF last.overlapped
        THEN /\ stored = assignValue(last.current.value, last.value)
             /\ \A n \in Fields(last.prior.value) :
                  (n \notin Fields(last.current.value) /\ n \notin Fields(last.value))
                  => n \notin Fields(stored)
        ELSE \A n \in Fields(last.prior.value) \cup Fields(last.value) :
               n \in Fields(stored)

\* the lost update: assign(k, {a: 1}) and assign(k, {b: 2}) both read {c: 3},
\* then both write, and the object has b and not a
C24_Witness ==
  /\ last.op = "assignWrite"
  /\ last.overlapped
  /\ last.prior # NoPrior
  /\ last.prior.caller # last.caller
  /\ last.prior.value = ObjA1
  /\ last.value = ObjB2
  /\ last.current.found
  /\ last.current.value = ObjC3
  /\ Fields(StoredValue(last.key)) = { <<"c">>, <<"b">> }

\* one after the other: the object has a, b and c
C24_WitnessInTurn ==
  /\ last.op = "assignWrite"
  /\ ~last.overlapped
  /\ last.prior # NoPrior
  /\ last.prior.caller # last.caller
  /\ last.prior.value = ObjA1
  /\ last.value = ObjB2
  /\ Fields(StoredValue(last.key)) = { <<"a">>, <<"b">>, <<"c">> }

(***************************************************************************)
(* gc beside the readers.                                                  *)
(***************************************************************************)
ReadPatterns == {Undefined, Str(<<"k">>), Str(<<"*">>)}
ReadPages == {<<Undefined, Undefined>>, <<Num(0), Num(1)>>, <<Num(1), Num(1)>>}

\* get, getOrDefault, has, count and all answer on a as they do on b
SameReads(a, b, date) ==
  /\ \A k \in Keys :
       /\ get(a, date, k) = get(b, date, k)
       /\ has(a, date, k) = has(b, date, k)
       /\ \A d \in Defaults : getOrDefault(a, date, k, d) = getOrDefault(b, date, k, d)
  /\ \A p \in ReadPatterns :
       /\ count(a, date, p, NoWhere) = count(b, date, p, NoWhere)
       /\ \A page \in ReadPages :
            all(a, date, page[1], page[2], p, NoWhere)
              = all(b, date, page[1], page[2], p, NoWhere)

\* the original wording: a second gc removes nothing whenever no call was
\* made since the first
C25_SecondGcRemovesNothing ==
  last.op = "gc" => gc(table, now).table = table

\* C25: after gc, with no call made since: a second gc at the clock reading
\* of the first removes nothing, a later one removes only rows that have
\* expired since; and get, getOrDefault, has, count and all answer on the
\* table as they would on the table gc found, at once and after any one
\* write made to both
C25_GcIdempotentInvisible ==
  last.op = "gc"
  => /\ gc(table, last.at) = [table |-> table, promise |-> Resolve(Num(0))]
     /\ \A r \in table \ gc(table, now).table :
          \E e \in r.expires : e > last.at /\ e <= now
     /\ SameReads(table, last.before, now)
     /\ \A k \in Keys, v \in Values :
          /\ SameReads(put(table, k, v, NoData).table,
                       put(last.before, k, v, NoData).table, now)
          /\ SameReads(assign(table, now, k, v, NoData).table,
                       assign(last.before, now, k, v, NoData).table, now)
     /\ \A k \in Keys, t \in Seconds :
          SameReads(expire(table, now, k, t).table,
                    expire(last.before, now, k, t).table, now)
     /\ \A k \in Keys :
          SameReads(delete(table, now, k).table, delete(last.before, now, k).table, now)

\* gc has removed a row while another with an expiration stays, and the
\* clock has moved on since
C25_Witness ==
  /\ last.op = "gc"
  /\ last.before # table
  /\ now > last.at
  /\ \E r \in table : r.expires # NULL /\ IsLive(r, now)

\* a row has expired since gc: a second gc removes it
C25_WitnessLater ==
  /\ last.op = "gc"
  /\ gc(table, now).table # table

(***************************************************************************)
(* put again.                                                              *)
(***************************************************************************)
\* C26: after put(k, v), a second put(k, v) answers the same and leaves the
\* table as it is: the one row of k with the value v and no expiration,
\* and every other row as it was before the first put
C26_PutIdempotent ==
  (last.op = "put" /\ last.data = NoData)
  => LET again == put(table, last.key, last.value, NoData)
     IN /\ again.table = table
        /\ again.promise = last.promise
        /\ RowsOf(table, last.key)
             = {[key |-> last.key, value |-> encodeValue(last.value), expires |-> NULL]}
        /\ {r \in table : r.key # last.key} = {r \in last.before : r.key # last.key}
        /\ SameReads(again.table, put(last.before, last.key, last.value, NoData).table, now)

\* the key had a row with another value and an expiration, and another row
\* is stored
C26_Witness ==
  /\ last.op = "put" /\ last.data = NoData
  /\ \E r \in RowsOf(last.before, last.key) :
       r.expires # NULL /\ r.value # encodeValue(last.value)
  /\ \E r \in table : r.key # last.key

(***************************************************************************)
(* undefined, null and no row.                                             *)
(***************************************************************************)
\* C27: after put(k, v) or assign(k, v) with v undefined or null the key has
\* a row: has answers true, get and getOrDefault(k, d) answer v itself,
\* neither the other of the two nor d nor KeyNotFound, and the stored
\* texts of undefined and of null differ
C27_OptionalValuesKept ==
  (/\ last.op \in {"put", "assign"}
   /\ last.data = NoData
   /\ isOptional(last.value))
  => /\ RowsOf(table, last.key) # {}
     /\ \A r \in RowsOf(table, last.key) : r.value = encodeValue(last.value)
     /\ encodeValue(Undefined) # encodeValue(Null)
     /\ \A d \in Dates :
          /\ has(table, d, last.key) = True
          /\ get(table, d, last.key) = Resolve(last.value)
          /\ \A dflt \in Defaults :
               /\ getOrDefault(table, d, last.key, dflt) = Resolve(last.value)
               /\ getOrDefault(table, d, last.key, dflt) # Resolve(dflt)

\* assign(k, undefined) over a live object
C27_Witness ==
  /\ last.op = "assign" /\ last.data = NoData
  /\ last.value = Undefined
  /\ LiveRows(last.before, last.at, last.key) # {}
  /\ ValueAt(last.before, last.at, last.key) = ObjA1
  /\ get(table, now, last.key) = Resolve(Undefined)
  /\ has(table, now, last.key) = True

\* put(k, null) where the key had no row
C27_WitnessNull ==
  /\ last.op = "put" /\ last.data = NoData
  /\ last.value = Null
  /\ RowsOf(last.before, last.key) = {}
  /\ get(table, now, last.key) = Resolve(Null)

(***************************************************************************)
(* A sweep that fails.                                                     *)
(***************************************************************************)
IsRejectedTick == last.op = "cron" /\ "sweep" \in DOMAIN last

\* what the callback itself does at a tick whose sweep fails: the task stays
\* started, the tasks, the counter and the table are as they were, and while
\* the process runs the next tick of the task sweeps
C28_TaskKeptAfterFailure ==
  IsRejectedTick
  => /\ tasks = last.tasks
     /\ tasks[last.task].state = "started"
     /\ __destroyCounter = last.counter
     /\ table = last.before
     /\ callback(tasks, last.task, collected, __destroyCounter, table, now).table
          = gc(table, now).table

\* C28: after a tick whose gc() rejects the task is still started, the
\* failure has been reported, and the process runs on to the next tick
C28_FailedSweepReported ==
  IsRejectedTick
  => /\ tasks[last.task].state = "started"
     /\ last.unhandled = "printed"
     /\ process = "running"

(***************************************************************************)
(* A filter of the caller's on the expires column.                         *)
(***************************************************************************)
Expiring(tbl) == {r \in tbl : r.expires # NULL}

\* C29: count(null, {expires: {$ne: null}}) answers the number of rows
\* stored with an expiration, the expired ones among them; after gc, with
\* no call made since, it would answer the number of those that had not
\* expired when gc ran
C29_ExpiresFilterReplacesLiveness ==
  /\ (/\ last.op = "count"
      /\ last.view = NoView
      /\ isOptional(last.pattern)
      /\ last.where \in Wheres)
     => last.promise = Resolve(Num(Cardinality(Expiring(last.before))))
  /\ last.op = "gc"
     => \A where \in Wheres :
          count(table, now, Null, where)
            = Resolve(Num(Cardinality({r \in Expiring(last.before) :
                                         ~IsExpired(r, last.at)})))

\* key-1 has expired and is not yet swept, key-2 never expires: the count
\* is 1
C29_Witness ==
  /\ last.op = "count" /\ last.view = NoView /\ last.where \in Wheres
  /\ \E r \in last.before : r.key = Key1 /\ IsExpired(r, last.at)
  /\ \E r \in last.before : r.key = Key2 /\ r.expires = NULL
  /\ last.promise = Resolve(Num(1))
  /\ count(last.before, last.at, Null, NoWhere) = Resolve(Num(1))

\* gc has swept key-1: the count is 0
C29_WitnessSwept ==
  /\ last.op = "gc"
  /\ \E r \in last.before : r.key = Key1 /\ IsExpired(r, last.at)
  /\ \E r \in table : r.key = Key2 /\ r.expires = NULL
  /\ \A where \in Wheres :
       /\ count(last.before, last.at, Null, where) = Resolve(Num(1))
       /\ count(table, now, Null, where) = Resolve(Num(0))

(***************************************************************************)
(* The two states of a task.                                               *)
(***************************************************************************)
Destroyed(tsks) == {t \in DOMAIN tsks : tsks[t].state = "destroyed"}

\* a step leaves every destroyed task destroyed and every task its store
TaskStep ==
  /\ DOMAIN tasks \subseteq DOMAIN tasks'
  /\ \A t \in DOMAIN tasks :
       /\ tasks'[t].ref = tasks[t].ref
       /\ tasks[t].state = "destroyed" => tasks'[t].state = "destroyed"

\* a step that changes the counter adds 1 and destroys one started task,
\* whose store is reclaimed, and leaves the table
CounterStep ==
  __destroyCounter' # __destroyCounter
  => /\ __destroyCounter' = __destroyCounter + 1
     /\ table' = table
     /\ \E t \in DOMAIN tasks :
          /\ tasks[t].state = "started"
          /\ tasks[t].ref \in collected
          /\ tasks' = taskDestroy(tasks, t)

\* a tick has either swept, once, with its task left started, or destroyed
\* its task without sweeping
TickSweepsOrCancels ==
  last.op = "cron"
  => LET swept == /\ tasks = last.tasks
                  /\ table = gc(last.before, last.at).table
                  /\ __destroyCounter = last.counter
                  /\ last.store \notin last.collected
         cancelled == /\ tasks = taskDestroy(last.tasks, last.task)
                      /\ table = last.before
                      /\ __destroyCounter = last.counter + 1
                      /\ last.store \in last.collected
     IN /\ last.tasks[last.task].state = "started"
        /\ swept \/ cancelled
        /\ ~(swept /\ cancelled)

\* C30: a task is started or destroyed and a destroyed task stays so; a tick
\* is the tick of a started task and either sweeps once or destroys the
\* task, never both; the counter rises by 1 only as a started task is
\* destroyed, so it never exceeds the number of destroyed tasks
C30_TaskStateMachine ==
  /\ [][TaskStep /\ CounterStep]_vars
  /\ [](/\ \A t \in DOMAIN tasks : tasks[t].state \in {"started", "destroyed"}
        /\ TickSweepsOrCancels
        /\ __destroyCounter <= Cardinality(Destroyed(tasks)))

\* a tick has destroyed the task of a reclaimed store, while another task
\* was destroyed by the monitor call that replaced it, and a third is started
C30_Witness ==
  /\ last.op = "cron"
  /\ last.task \in Destroyed(tasks) \ Destroyed(last.tasks)
  /\ \E t \in Destroyed(last.tasks) : tasks[t].ref \notin collected
  /\ \E self \in Stores : Started(tasks, self) # {}
  /\ __destroyCounter = 1

(***************************************************************************)
(* The readers' filter and the sweep's.                                    *)
(***************************************************************************)
\* the operations that look for the row r at the instant date find it
Visible(tbl, date, r) ==
  /\ has(tbl, date, r.key) = Resolve(Bool(TRUE))
  /\ get(tbl, date, r.key).state = "resolved"
  /\ r \notin delete(tbl, date, r.key).table
  /\ expire(tbl, date, r.key, 0).promise.state = "resolved"
  /\ count(tbl, date, Str(r.key), NoWhere) = Resolve(Num(1))
  /\ \A p \in all(tbl, date, Undefined, Undefined, Str(r.key), NoWhere) :
       Len(p.value) = 1

\* none of them finds it
Invisible(tbl, date, r) ==
  /\ has(tbl, date, r.key) = Resolve(Bool(FALSE))
  /\ get(tbl, date, r.key).state = "rejected"
  /\ r \in delete(tbl, date, r.key).table
  /\ expire(tbl, date, r.key, 0).promise.state = "rejected"
  /\ count(tbl, date, Str(r.key), NoWhere) = Resolve(Num(0))
  /\ \A p \in all(tbl, date, Undefined, Undefined, Str(r.key), NoWhere) :
       Len(p.value) = 0

Swept(tbl, date, r) == r \notin gc(tbl, date).table

\* C31: at every instant every stored row is either found by get, has,
\* delete, expire, count and all, and then its expires is null or later
\* than the instant and gc leaves it, or found by none of them, and then
\* its expires is at or before the instant and gc removes it
C31_ReadersAndSweepPartition ==
  \A r \in table, date \in Dates :
    IF r.expires = NULL \/ \E e \in r.expires : e > date
    THEN Visible(table, date, r) /\ ~Swept(table, date, r)
    ELSE Invisible(table, date, r) /\ Swept(table, date, r)

\* a row expires at this very instant, beside a row that expires later and
\* one would have to wait for
C31_Witness ==
  /\ \E r \in table : r.expires = Date(now)
  /\ \E r \in table : \E e \in r.expires : e > now

(***************************************************************************)
(* A view's count and all with a filter of the caller's.                   *)
(***************************************************************************)
\* the row meets the liveness condition and the caller's filter, the key
\* column apart
Allowed(r, date, where) ==
  Matches(r, ObjectAssign([expires |-> NullOrGt(date)],
                          [c \in DOMAIN where \ {"key"} |-> where[c]]))

\* the rows a view may answer: those whose key starts with its prefix
Inside(tbl, date, view, where) ==
  {r \in tbl : StartsWith(r.key, view._prefix) /\ Allowed(r, date, where)}

\* C32: whatever the filter, a view's count counts and its all answers
\* rows whose stored key starts with the view's prefix, and no others
C32_ViewFilterStaysInside ==
  /\ last.op = "view.count"
       => last.promise.value.n
            <= Cardinality(Inside(last.before, last.at, last.view, last.where))
  /\ last.op = "view.all"
       => Len(last.promise.value)
            <= Cardinality(Inside(last.before, last.at, last.view, last.where))

\* a filter that leaves the key column alone keeps the view to its prefix
C32_FilterNotOnKey ==
  (last.op \in {"view.count", "view.all"} /\ "key" \notin DOMAIN last.where)
  => C32_ViewFilterStaysInside

(***************************************************************************)
(* Two calls of put at once.                                               *)
(***************************************************************************)
\* C33: no key ever has two rows; after the upsert of a call of put or of
\* assign with a scalar, another call's upsert having come between the call
\* and its own upsert or not, the key has exactly one row, with the value
\* of this call, the last to reach the table, and no expiration
C33_ConcurrentPuts ==
  /\ \A k \in RaceKeys : Cardinality(RowsOf(table, k)) <= 1
  /\ last.op = "upsert"
       => /\ RowsOf(table, last.key)
               = {[key |-> last.key, value |-> encodeValue(last.value),
                   expires |-> NULL]}
          /\ get(table, now, last.key) = Resolve(last.value)
          /\ last.prior # NoPrior
               => StoredValue(last.key) \in {last.value, last.prior.value}

\* both calls were made before either upsert, with different values, on a
\* key whose row had an expiration
C33_Witness ==
  /\ last.op = "upsert"
  /\ last.overlapped
  /\ last.prior # NoPrior
  /\ last.prior.caller # last.caller
  /\ last.prior.value # last.value
  /\ last.method = "assign"
  /\ StoredValue(last.key) = last.value

(***************************************************************************)
(* The facade and the store object it calls.                               *)
(***************************************************************************)
\* C34: a function of the facade works as the method of the same name of
\* _globalInstance called with the same arguments: the table call is made
\* with the attributes and under the transaction that the store's method,
\* given the arguments the facade was given, makes it with
C34_FacadeAsStore ==
  (IsTxnCall /\ last.surface = "facade")
    => LET same == Store_receives(last.op, NoData, last.given)
       IN /\ last.data = same.data
          /\ last.under = options(same.transaction)

\* C34, but for gc: every function of the facade but gc works as the store's
\* method given the same arguments, put included, whose third argument the
\* facade and the store alike take as the data
C34_FacadeAsStoreButGc ==
  (IsTxnCall /\ last.surface = "facade" /\ last.op # "gc") => C34_FacadeAsStore

(***************************************************************************)
(* The table name.                                                         *)
(***************************************************************************)
\* C35: tableName of a view, a view of a store or a view of a view, answers
\* the table name of the store behind it, the string the store's tableName
\* answers, and raises no error
C35_ViewTableName ==
  last.op = "view.tableName"
    => last.outcome = Returns(tableName(last.view._master))

\* C35, of the store and the facade: tableName of a store and tableName() of
\* the facade answer the store's table name
C35_StoreTableName ==
  last.op \in {"tableName", "facade.tableName"}
    => last.outcome = Returns(Str(<<"_", "_", "m", "e", "t", "a", "d", "b">>))

(***************************************************************************)
(* The readers.                                                            *)
(***************************************************************************)
ReadOps ==
  {"get", "getOrDefault", "getOrNull", "has", "count", "all", "prefix",
   "view.get", "view.getOrDefault", "view.getOrNull", "view.has",
   "view.count", "view.all"}

\* C36: a call of get, getOrDefault, getOrNull, has, count, all or prefix, of
\* the store or of a view, resolved or rejected, leaves every row of the
\* table, the stores' tasks and the destroy counter as they were
C36_ReadsChangeNothing ==
  [][(last' # last /\ last'.op \in ReadOps)
       => /\ table' = table
          /\ _task' = _task
          /\ tasks' = tasks
          /\ __destroyCounter' = __destroyCounter]_vars

\* a get that was rejected for a row that has expired and is still stored,
\* with the store's task started
C36_Witness ==
  /\ last.op \in {"get", "view.get"}
  /\ Rejected
  /\ \E r \in table : r.key = <<"p", "k">> /\ r.expires # NULL
  /\ table = last.before
  /\ Started(tasks, _globalInstance) # {}

(***************************************************************************)
(* One row for a key, and what a writer leaves alone.                      *)
(***************************************************************************)
\* the key the store's method was given: a view's put, assign and delete
\* give the key with the prefix before it, a view's expire the key as it is
GivenKey ==
  IF last.op \in {"view.put", "view.assign", "view.delete"}
  THEN _convertKey(last.view, Str(last.key))
  ELSE last.key

\* the key a put or an assign writes: the key column of the extra columns,
\* when they name it
WrittenKey == IF "key" \in DOMAIN last.data THEN last.data.key ELSE GivenKey

Others(tbl, key) == {r \in tbl : r.key # key}
Unexpiring(tbl) == {[key |-> r.key, value |-> r.value] : r \in tbl}

OneRowPerKey == \A r1 \in table, r2 \in table : r1.key = r2.key => r1 = r2

\* put and assign leave the rows of every key but `key` as they were,
\* expire leaves every row's key and value and every other row's expires,
\* delete removes nothing but the row of its key
WriteFrame(key) ==
  /\ last.op \in {"put", "assign", "view.put", "view.assign"}
       => Others(table, key) = Others(last.before, key)
  /\ last.op \in {"expire", "view.expire"}
       => /\ Others(table, GivenKey) = Others(last.before, GivenKey)
          /\ Unexpiring(table) = Unexpiring(last.before)
  /\ last.op \in {"delete", "view.delete"}
       => /\ table \subseteq last.before
          /\ Others(table, GivenKey) = Others(last.before, GivenKey)

\* C37 as stated: the table has one row for a key at most; put(k, ..) and
\* assign(k, ..) change the row of k only, whatever the extra columns,
\* expire(k, ..) the expires of the row of k only, delete(k) removes the row
\* of k only
C37_WriteFrameAnyData == OneRowPerKey /\ WriteFrame(GivenKey)

\* C37: the table has one row for a key at most; put(k, .., extraColumns) and
\* assign(k, .., extraColumns) change the row of k only, or the row of the
\* key that extraColumns names when it names the key column; expire(k, ..)
\* changes the expires of the row of k only, delete(k) removes the row of k
\* only
C37_WriteFrame == OneRowPerKey /\ WriteFrame(WrittenKey)

\* a put through the view beside another row, on a row that had an
\* expiration
C37_Witness ==
  /\ last.op = "view.put"
  /\ last.data = NoData
  /\ table # last.before
  /\ Others(table, GivenKey) # {}
  /\ \E r \in RowsOf(last.before, GivenKey) : r.expires # NULL

\* an assign whose extra columns name another key, the row of its own key
\* being stored
C37_WitnessRedirected ==
  /\ last.op = "assign"
  /\ last.data # NoData
  /\ RowsOf(table, last.key) # {}
  /\ RowsOf(table, WrittenKey) # RowsOf(last.before, WrittenKey)

(***************************************************************************)
(* assign and the expiration.                                              *)
(***************************************************************************)
\* what assign's yield self._get(key) answered
AssignCurrent == _get(last.before, last.at, last.key)

\* assign took the branch that merges: value is no scalar and the row is
\* live with an object or an array for its value
Merged ==
  /\ last.op = "assign"
  /\ ~(isString(last.value) \/ isNumber(last.value) \/ isBoolean(last.value)
         \/ isOptional(last.value))
  /\ AssignCurrent.found
  /\ ~(isString(AssignCurrent.value) \/ isNumber(AssignCurrent.value)
         \/ isBoolean(AssignCurrent.value) \/ isOptional(AssignCurrent.value))

\* C38: after assign(k, value), in the branch that merges as in the others,
\* the row of k has no expiration, whatever it had: the key is read at every
\* later time as it is read at once, the merged value in the merging branch
C38_AssignClearsExpires ==
  (last.op = "assign" /\ last.data = NoData)
    => /\ RowsOf(table, last.key) # {}
       /\ \A r \in RowsOf(table, last.key) : r.expires = NULL
       /\ \A date \in Dates :
            /\ has(table, date, last.key) = True
            /\ get(table, date, last.key) = get(table, last.at, last.key)
       /\ Merged => get(table, now, last.key)
                      = Resolve(parseValue(encodeValue(
                          assignValue(AssignCurrent.value, last.value))))

\* the merging branch on a row with an expiration still to come, which has
\* passed since
C38_Witness ==
  /\ Merged
  /\ last.data = NoData
  /\ \E r \in RowsOf(last.before, last.key) :
       \E e \in r.expires : last.at < e /\ e <= now
  /\ AssignCurrent.value # last.value

(***************************************************************************)
(* count beside all.                                                       *)
(***************************************************************************)
\* C39: at any table and time, for every pattern, count(pattern) answers the
\* number of records that all(null, null, pattern) answers at that time, of
\* the store and of a view alike
C39_CountIsLengthOfAll ==
  /\ \A pattern \in Patterns :
       \A listed \in all(table, now, Null, Null, pattern, NoWhere) :
         count(table, now, pattern, NoWhere) = Resolve(Num(Len(listed.value)))
  /\ \A w \in ListViews, pattern \in ViewPatterns :
       \A listed \in Prefix_all(w, table, now, Null, Null, pattern, NoWhere) :
         Prefix_count(w, table, now, pattern, NoWhere)
           = Resolve(Num(Len(listed.value)))

\* key-1 is live, key-2 has expired and is still stored, qqq-1 is stored:
\* the counts of the patterns differ from each other and from the rows
C39_Witness ==
  /\ \E r \in RowsOf(table, Key1) : IsLive(r, now)
  /\ \E r \in RowsOf(table, Key2) : IsExpired(r, now)
  /\ \E r \in RowsOf(table, Qqq1) : IsLive(r, now)
  /\ last.op \in {"count", "view.count"}
  /\ last.at = now
  /\ last.before = table
  /\ last.promise = Resolve(Num(1))

(***************************************************************************)
(* init called again, and the task of the store it replaces.               *)
(***************************************************************************)
\* init leaves every task and every store's _task as they were, and the
\* store it makes has no task
InitKeepsTasks ==
  last.op = "facade.init"
    => /\ tasks = last.tasks
       /\ _task[last.replaced] = last._task[last.replaced]
       /\ _globalInstance = last.store
       /\ _task[_globalInstance] = NoTask

\* the task of a replaced store is started until a tick has found the store
\* reclaimed; a tick of it before that sweeps the table and leaves the tasks
\* and the counter, the tick that finds the store reclaimed destroys the
\* task, counts it and leaves the table
ReplacedKeepsSweeping ==
  /\ \A s \in Replaced :
       (_task[s] # NoTask /\ tasks[_task[s]].state = "destroyed")
         => s \in collected
  /\ (last.op = "cron" /\ last.store \in Replaced)
       => IF last.store \in last.collected
          THEN /\ tasks = taskDestroy(last.tasks, last.task)
               /\ __destroyCounter = last.counter + 1
               /\ table = last.before
          ELSE /\ tasks = last.tasks
               /\ __destroyCounter = last.counter
               /\ table = gc(last.before, last.at).table

\* the store init has made has no task, started or not, until monitor is
\* called on it
FreshHasNoTask ==
  (_task[_globalInstance] = NoTask)
    => \A t \in DOMAIN tasks : tasks[t].ref # _globalInstance

\* C40: init destroys no task.  When monitor was called on the facade and
\* init is called again, the task of the store it replaces stays started
\* and sweeps the table at its every tick, so that a row whose expiration
\* has passed is in the end removed, until a tick finds the store reclaimed;
\* the store init has made has no task until monitor is called on it.
C40_InitKeepsSweeping ==
  /\ [](InitKeepsTasks /\ ReplacedKeepsSweeping /\ FreshHasNoTask)
  /\ \A k \in MonitorKeys, s \in Stores :
       (Unswept(k) /\ s \in Replaced /\ Started(tasks, s) # {})
         ~> (~Unswept(k) \/ s \in collected)

\* after init was called again, and with no task on the store it made, a
\* tick of the replaced store's task has removed an expired row
C40_Witness ==
  /\ last.op = "cron"
  /\ last.store \in Replaced
  /\ last.store \notin last.collected
  /\ table # last.before
  /\ _task[_globalInstance] = NoTask
  /\ Started(tasks, last.store) # {}

=============================================================================
